---------------------------- MODULE Spec2Model ----------------------------
(***************************************************************************)
(* Plan-generation pipeline of the task planner backend:                   *)
(*   CreatePlanUseCase.execute  (usecases/create_plan_usecase.py)          *)
(*   CreatePlanUsecaseHelper    (usecases/create_plan_usecase_helper.py)   *)
(*   AIService                  (services/ai_service.py)                   *)
(*   WeatherService             (services/weather_service.py)              *)
(*   WebSearchService           (services/web_search_service.py)           *)
(*   PlanRepository / PlanDocument (repositories, models/database)         *)
(*                                                                         *)
(* Conventions.  A Python str is a sequence of one-character strings.  A   *)
(* JSON value (what json.loads returns) is a tagged record, so that values *)
(* of different Python types can be told apart: see JNull .. JObj.  A dict *)
(* with a fixed key set is a record in which a missing key holds JAbsent.  *)
(* Python's None is JNull.                                                 *)
(***************************************************************************)
EXTENDS Integers, Sequences, FiniteSets, TLC

VARIABLES
    pc,             \* position of the request inside CreatePlanUseCase.execute
    goal,           \* the caller's goal text (request.goal)
    ai_log,         \* the generative-model calls of this request, in order, with what each returned
    extracted_info, \* result of step 1 (plus the "goal" key added by execute)
    external_info,  \* result of step 2
    plan_data,      \* result of step 3 (the raw plan)
    enriched_plan,  \* result of step 4 (the domain Plan)
    storage,        \* the plans collection: a set of documents keyed by _id
    next_oid,       \* source of ObjectId(): the next value not handed out yet
    trace,          \* the steps of execute completed so far, and each call of PlanRepository.create
    error,          \* the exception that left execute, if any
    ext_log,        \* the weather and search provider calls of this request, in order
    clock,          \* the latest reading of the system clock (datetime.now(), datetime.utcnow())
    http_response,  \* the HTTP response to the latest request served
    requests        \* the update requests in flight: each one's body, position and copy of the plan

vars == << pc, goal, ai_log, extracted_info, external_info, plan_data,
           enriched_plan, storage, next_oid, trace, error, ext_log, clock, http_response,
           requests >>

-----------------------------------------------------------------------------
(* Bounds of the model *)

MaxTextLen == 3      \* segments in a model response text
MaxDurStrLen == 2    \* characters in a duration string
MaxInt == 3          \* largest integer the model returns for duration
MaxDays == 2         \* raw days in a model plan
MaxTasks == 2        \* raw tasks in a model plan

-----------------------------------------------------------------------------
(* Python values *)

JAbsent == [t |-> "absent"]                 \* key not in the dict
JNull == [t |-> "null"]                     \* None
JStr(s) == [t |-> "str", s |-> s]
JInt(i) == [t |-> "int", i |-> i]
JBool(b) == [t |-> "bool", b |-> b]         \* bool is a subclass of int in Python
JFloat == [t |-> "float"]                   \* some non-integral number, e.g. 2.5
JList(xs) == [t |-> "list", xs |-> xs]
JObj(o) == [t |-> "obj", o |-> o]
None == JNull

\* bool(v): the truth value Python gives v in `v or default`
Truthy(v) ==
    CASE v.t = "absent" -> FALSE
      [] v.t = "null" -> FALSE
      [] v.t = "str" -> v.s # <<>>
      [] v.t = "int" -> v.i # 0
      [] v.t = "bool" -> v.b
      [] v.t = "float" -> TRUE
      [] v.t = "list" -> v.xs # <<>>
      [] OTHER -> TRUE

\* d.get(key): a missing key reads as None
Get(v) == IF v = JAbsent THEN JNull ELSE v

\* d.get(key, default)
GetOr(v, default) == IF v = JAbsent THEN default ELSE v

\* d.get(key) or default
OrDefault(v, default) == IF Truthy(v) THEN v ELSE default

\* all sequences over S of length at most n
RECURSIVE SeqsUpTo(_, _)
SeqsUpTo(S, n) ==
    IF n = 0 THEN { <<>> }
    ELSE LET shorter == SeqsUpTo(S, n - 1)
         IN  shorter \cup { Append(s, x) : s \in { q \in shorter : Len(q) = n - 1 }, x \in S }

Front(s) == SubSeq(s, 1, Len(s) - 1)
Last(s) == s[Len(s)]

Max(a, b) == IF b > a THEN b ELSE a         \* Python max(a, b): the first of two equal values

-----------------------------------------------------------------------------
(* Strings *)

Digits == << "0", "1", "2", "3", "4", "5", "6", "7", "8", "9" >>
IsDigit(c) == \E i \in 1..10 : Digits[i] = c
DigitValue(c) == (CHOOSE i \in 1..10 : Digits[i] = c) - 1

\* str(n) for an integer n >= 0
RECURSIVE IntToStr(_)
IntToStr(n) ==
    IF n < 10 THEN << Digits[n + 1] >>
    ELSE Append(IntToStr(n \div 10), Digits[(n % 10) + 1])

\* int(s) for a string of digits
RECURSIVE StrToInt(_)
StrToInt(s) ==
    IF s = <<>> THEN 0
    ELSE 10 * StrToInt(Front(s)) + DigitValue(Last(s))

S_Paris == <<"P", "a", "r", "i", "s">>
S_PlanFor == <<"P", "l", "a", "n", " ", "f", "o", "r", ":", " ">>
S_days == <<" ", "d", "a", "y", "s">>
S_1day == <<"1", " ", "d", "a", "y">>
S_pending == <<"p", "e", "n", "d", "i", "n", "g">>
S_in_progress == <<"i", "n", "_", "p", "r", "o", "g", "r", "e", "s", "s">>
S_completed == <<"c", "o", "m", "p", "l", "e", "t", "e", "d">>

Q_best == <<"b", "e", "s", "t", " ", "p", "l", "a", "c", "e", "s", " ", "t", "o", " ", "v", "i", "s", "i", "t", " ", "i", "n", " ">>
Q_restaurants == <<"r", "e", "s", "t", "a", "u", "r", "a", "n", "t", "s", " ", "i", "n", " ">>
Q_in == <<" ", "i", "n", " ">>
S_hiking == <<"h", "i", "k", "i", "n", "g">>
S_museums == <<"m", "u", "s", "e", "u", "m", "s">>
S_food == <<"f", "o", "o", "d">>
S_Louvre == <<"L", "o", "u", "v", "r", "e">>
S_Hotel == <<"H", "o", "t", "e", "l">>
S_Arrive == <<"A", "r", "r", "i", "v", "e">>
S_desc == <<"s", "e", "e", " ", "a", "r", "t">>
S_t1 == <<"t", "1">>
S_done == <<"d", "o", "n", "e">>
S_2days == <<"2", " ", "d", "a", "y", "s">>
S_paraphrase == <<"A", " ", "P", "a", "r", "i", "s", " ", "g", "e", "t", "a", "w", "a", "y">>
S_summary == <<"s", "i", "g", "h", "t", "s">>

GoalParisWeekend == <<"t", "r", "i", "p", " ", "t", "o", " ", "P", "a", "r", "i", "s", " ", "n", "e", "x", "t", " ", "w", "e", "e", "k", "e", "n", "d">>
GoalPiano == <<"l", "e", "a", "r", "n", " ", "p", "i", "a", "n", "o">>

-----------------------------------------------------------------------------
(* Results of a call: a value, or an exception leaving the callee *)

Ok(v) == [raised |-> FALSE, exc |-> "", value |-> v]
Raise(e) == [raised |-> TRUE, exc |-> e, value |-> None]

-----------------------------------------------------------------------------
(* The generative model (genai.GenerativeModel.generate_content)           *)
(*                                                                         *)
(* A response either raises a provider error, or carries response.text:    *)
(* None, or a text.  A text is a sequence of segments: "ws" a run of       *)
(* whitespace, "fence_json" the marker ```json, "fence" the marker ```,    *)
(* "json" one complete JSON document, "junk" any other characters.  Every  *)
(* "json" segment of a response denotes the JSON value in its value field. *)

TextSegments == { "ws", "fence_json", "fence", "json", "junk" }

AIRaises == [kind |-> "raise", text |-> <<>>, value |-> JNull]
\* generate_content raises the provider's quota error: str(e) holds "429"
\* and "quota"
AIQuotaExceeded == [kind |-> "raise", text |-> << "429", "quota" >>, value |-> JNull]
AINoText == [kind |-> "none", text |-> <<>>, value |-> JNull]
AIText(text, value) == [kind |-> "text", text |-> text, value |-> value]

\* str.strip()
RECURSIVE LStrip(_)
LStrip(text) ==
    IF text # <<>> /\ Head(text) = "ws" THEN LStrip(Tail(text)) ELSE text

RECURSIVE RStrip(_)
RStrip(text) ==
    IF text # <<>> /\ Last(text) = "ws" THEN RStrip(Front(text)) ELSE text

Strip(text) == RStrip(LStrip(text))

StartsWith(text, seg) == text # <<>> /\ Head(text) = seg
EndsWith(text, seg) == text # <<>> /\ Last(text) = seg

\* AIService._clean_json_response
CleanJsonResponse(response_text) ==
    LET t0 == Strip(response_text)
        t1 == IF StartsWith(t0, "fence_json") THEN Tail(t0) ELSE t0
        t2 == IF StartsWith(t1, "fence") THEN Tail(t1) ELSE t1
        t3 == IF EndsWith(t2, "fence") THEN Front(t2) ELSE t2
    IN  Strip(t3)

\* json.loads(clean_text), the document denoting value: whitespace around
\* one document is allowed, anything else is a JSONDecodeError
JsonLoads(clean_text, value) ==
    IF Strip(clean_text) = << "json" >> THEN Ok(value) ELSE Raise("JSONDecodeError")

\* `not response.text or response.text.strip() == ""`
EmptyResponse(response) ==
    \/ response.kind = "none"
    \/ response.text = <<>>
    \/ Strip(response.text) = <<>>

-----------------------------------------------------------------------------
(* Step 1: goal extraction (AIService.extract_goal_information) *)

\* re.findall(r'\d+', s)[0], or <<>> when s holds no digit
RECURSIVE DigitRun(_)
DigitRun(s) ==
    IF s # <<>> /\ IsDigit(Head(s)) THEN << Head(s) >> \o DigitRun(Tail(s)) ELSE <<>>

RECURSIVE FirstDigits(_)
FirstDigits(s) ==
    IF s = <<>> THEN <<>>
    ELSE IF IsDigit(Head(s)) THEN DigitRun(s)
    ELSE FirstDigits(Tail(s))

\* the duration part of AIService._process_extracted_info
ProcessDuration(raw) ==
    LET duration_value == GetOr(raw, JInt(3))
        parsed ==
            CASE duration_value.t = "str" ->
                    IF FirstDigits(duration_value.s) # <<>>
                    THEN StrToInt(FirstDigits(duration_value.s))
                    ELSE 3
              [] duration_value.t = "int" -> duration_value.i
              [] duration_value.t = "bool" -> IF duration_value.b THEN 1 ELSE 0
              [] OTHER -> 3
    IN  Max(1, parsed)

\* AIService._get_default_goal_info
GetDefaultGoalInfo ==
    [ destination |-> JStr(<<>>),
      duration |-> 3,
      activities |-> JList(<<>>),
      preferences |-> JList(<<>>),
      budget_considerations |-> JStr(<<>>),
      time_of_year |-> JStr(<<>>),
      timing_keywords |-> JStr(<<>>) ]

\* AIService._process_extracted_info
ProcessExtractedInfo(extracted) ==
    [ destination |-> OrDefault(Get(extracted.destination), JStr(<<>>)),
      duration |-> ProcessDuration(extracted.duration),
      activities |-> OrDefault(Get(extracted.activities), JList(<<>>)),
      preferences |-> OrDefault(Get(extracted.preferences), JList(<<>>)),
      budget_considerations |-> OrDefault(Get(extracted.budget_considerations), JStr(<<>>)),
      time_of_year |-> OrDefault(Get(extracted.time_of_year), JStr(<<>>)),
      timing_keywords |-> OrDefault(Get(extracted.timing_keywords), JStr(<<>>)) ]

\* the body of the try block of extract_goal_information, after the model call
ExtractTry(response) ==
    IF response.kind = "raise" THEN Raise("ProviderError")
    ELSE IF EmptyResponse(response) THEN Ok(GetDefaultGoalInfo)
    ELSE LET extracted == JsonLoads(CleanJsonResponse(response.text), response.value)
         IN  IF extracted.raised THEN extracted
             ELSE IF extracted.value.t # "obj" THEN Raise("AttributeError")
             ELSE Ok(ProcessExtractedInfo(extracted.value.o))

\* extract_goal_information without its `except Exception` clause: what the
\* extraction results would be if the handler were missing
ExtractGoalInformationUnguarded(response) == ExtractTry(response)

\* AIService.extract_goal_information: `except Exception` returns the default
ExtractGoalInformation(response) ==
    LET attempt == ExtractTry(response)
    IN  IF attempt.raised THEN Ok(GetDefaultGoalInfo) ELSE attempt

-----------------------------------------------------------------------------
(* Calendar.  A date is the number of days since 2024-01-01, a Monday, so  *)
(* date.weekday() (Monday = 0) is the date modulo 7.  A datetime is a date *)
(* and a time of day; the time of day is 0 for midnight, which is what     *)
(* datetime(year, month, day) gives, and a clock reading otherwise.        *)

BaseYear == 2024

IsLeap(y) == (y % 4 = 0 /\ y % 100 # 0) \/ y % 400 = 0
DaysInYear(y) == IF IsLeap(y) THEN 366 ELSE 365
DaysInMonth(y, m) ==
    IF m = 2 THEN (IF IsLeap(y) THEN 29 ELSE 28)
    ELSE IF m \in {4, 6, 9, 11} THEN 30 ELSE 31

RECURSIVE DaysBeforeYear(_)
DaysBeforeYear(y) == IF y <= BaseYear THEN 0 ELSE DaysBeforeYear(y - 1) + DaysInYear(y - 1)

RECURSIVE DaysBeforeMonth(_, _)
DaysBeforeMonth(y, m) == IF m <= 1 THEN 0 ELSE DaysBeforeMonth(y, m - 1) + DaysInMonth(y, m - 1)

\* datetime(y, m, d) as a date; the caller checks ValidDate first
Ordinal(y, m, d) == DaysBeforeYear(y) + DaysBeforeMonth(y, m) + (d - 1)
ValidDate(y, m, d) == m \in 1..12 /\ d >= 1 /\ d <= DaysInMonth(y, m)

RECURSIVE YearFrom(_, _)
YearFrom(y, n) == IF n < DaysInYear(y) THEN y ELSE YearFrom(y + 1, n - DaysInYear(y))
YearOf(date) == YearFrom(BaseYear, date)

RECURSIVE MonthFrom(_, _, _)
MonthFrom(y, m, n) == IF n < DaysInMonth(y, m) THEN m ELSE MonthFrom(y, m + 1, n - DaysInMonth(y, m))
MonthOf(date) == MonthFrom(YearOf(date), 1, date - DaysBeforeYear(YearOf(date)))

DayOf(date) == date - Ordinal(YearOf(date), MonthOf(date), 1) + 1
Weekday(date) == date % 7

\* datetime.max, 9999-12-31: date arithmetic past it raises OverflowError
MaxOrdinal == 2913173

DateTime(date, tod) == [date |-> date, tod |-> tod]

\* the %m and %d fields: two digits
Pad2(n) == (IF n < 10 THEN <<"0">> ELSE <<>>) \o IntToStr(n)

\* date.strftime("%Y-%m-%d"): one string per date
DateStr(date) ==
    IntToStr(YearOf(date)) \o <<"-">> \o Pad2(MonthOf(date)) \o <<"-">> \o Pad2(DayOf(date))

-----------------------------------------------------------------------------
(* Step 2a: trip dates (CreatePlanUsecaseHelper.calculate_trip_dates) *)

UpperLetters == << "A", "B", "C", "D", "E", "F", "G", "H", "I", "J", "K", "L", "M", "N", "O", "P", "Q", "R", "S", "T", "U", "V", "W", "X", "Y", "Z" >>
LowerLetters == << "a", "b", "c", "d", "e", "f", "g", "h", "i", "j", "k", "l", "m", "n", "o", "p", "q", "r", "s", "t", "u", "v", "w", "x", "y", "z" >>

IsUpper(c) == \E i \in 1..26 : UpperLetters[i] = c
IsLower(c) == \E i \in 1..26 : LowerLetters[i] = c
IsAlpha(c) == IsUpper(c) \/ IsLower(c)          \* [a-zA-Z]
IsSpace(c) == c \in { " ", "\t", "\n" }          \* \s

\* str.lower()
LowerChar(c) == IF IsUpper(c) THEN LowerLetters[CHOOSE i \in 1..26 : UpperLetters[i] = c] ELSE c
Lower(s) == [i \in 1..Len(s) |-> LowerChar(s[i])]

\* sub occurs in s at position i
OccursAt(s, sub, i) == i >= 1 /\ i + Len(sub) - 1 <= Len(s) /\ SubSeq(s, i, i + Len(sub) - 1) = sub

\* `sub in s`
Contains(s, sub) == \E i \in 1..(Len(s) + 1) : OccursAt(s, sub, i)

\* length of the longest run of characters satisfying a class, from position i
RECURSIVE DigitsFrom(_, _)
DigitsFrom(s, i) == IF i <= Len(s) /\ IsDigit(s[i]) THEN 1 + DigitsFrom(s, i + 1) ELSE 0

RECURSIVE AlphasFrom(_, _)
AlphasFrom(s, i) == IF i <= Len(s) /\ IsAlpha(s[i]) THEN 1 + AlphasFrom(s, i + 1) ELSE 0

RECURSIVE SpacesFrom(_, _)
SpacesFrom(s, i) == IF i <= Len(s) /\ IsSpace(s[i]) THEN 1 + SpacesFrom(s, i + 1) ELSE 0

MonthNames ==
    {
      << <<"j","a","n">>, 1 >>,
      << <<"j","a","n","u","a","r","y">>, 1 >>,
      << <<"f","e","b">>, 2 >>,
      << <<"f","e","b","r","u","a","r","y">>, 2 >>,
      << <<"m","a","r">>, 3 >>,
      << <<"m","a","r","c","h">>, 3 >>,
      << <<"a","p","r">>, 4 >>,
      << <<"a","p","r","i","l">>, 4 >>,
      << <<"m","a","y">>, 5 >>,
      << <<"j","u","n">>, 6 >>,
      << <<"j","u","n","e">>, 6 >>,
      << <<"j","u","l">>, 7 >>,
      << <<"j","u","l","y">>, 7 >>,
      << <<"a","u","g">>, 8 >>,
      << <<"a","u","g","u","s","t">>, 8 >>,
      << <<"s","e","p">>, 9 >>,
      << <<"s","e","p","t","e","m","b","e","r">>, 9 >>,
      << <<"o","c","t">>, 10 >>,
      << <<"o","c","t","o","b","e","r">>, 10 >>,
      << <<"n","o","v">>, 11 >>,
      << <<"n","o","v","e","m","b","e","r">>, 11 >>,
      << <<"d","e","c">>, 12 >>,
      << <<"d","e","c","e","m","b","e","r">>, 12 >>
    }

IsMonthName(w) == \E p \in MonthNames : p[1] = w
MonthNumber(w) == (CHOOSE p \in MonthNames : p[1] = w)[2]

OrdinalSuffixes == { <<"s","t">>, <<"n","d">>, <<"r","d">>, <<"t","h">> }

NoMatch == [found |-> FALSE, day |-> 0, word |-> <<>>]
Match(day, word) == [found |-> TRUE, day |-> day, word |-> word]

\* (\d{1,2})(?:st|nd|rd|th)\s+([a-zA-Z]+) anchored at i, taking k digits
Pattern1At(s, i, k) ==
    LET j == i + k          \* the suffix
        w == j + 2          \* the white space
        a == w + SpacesFrom(s, w)
    IN  /\ DigitsFrom(s, i) >= k
        /\ \E suf \in OrdinalSuffixes : OccursAt(s, suf, j)
        /\ SpacesFrom(s, w) >= 1
        /\ AlphasFrom(s, a) >= 1

Pattern1Groups(s, i, k) ==
    LET a == i + k + 2 + SpacesFrom(s, i + k + 2)
    IN  Match(StrToInt(SubSeq(s, i, i + k - 1)), SubSeq(s, a, a + AlphasFrom(s, a) - 1))

\* (\d{1,2})\s+([a-zA-Z]+) anchored at i, taking k digits
Pattern2At(s, i, k) ==
    LET w == i + k
        a == w + SpacesFrom(s, w)
    IN  /\ DigitsFrom(s, i) >= k
        /\ SpacesFrom(s, w) >= 1
        /\ AlphasFrom(s, a) >= 1

Pattern2Groups(s, i, k) ==
    LET a == i + k + SpacesFrom(s, i + k)
    IN  Match(StrToInt(SubSeq(s, i, i + k - 1)), SubSeq(s, a, a + AlphasFrom(s, a) - 1))

\* ([a-zA-Z]+)\s+(\d{1,2}) anchored at i
Pattern3At(s, i) ==
    LET w == i + AlphasFrom(s, i)
        d == w + SpacesFrom(s, w)
    IN  /\ AlphasFrom(s, i) >= 1
        /\ SpacesFrom(s, w) >= 1
        /\ DigitsFrom(s, d) >= 1

Pattern3Groups(s, i) ==
    LET w == i + AlphasFrom(s, i)
        d == w + SpacesFrom(s, w)
        k == IF DigitsFrom(s, d) >= 2 THEN 2 ELSE 1
    IN  Match(StrToInt(SubSeq(s, d, d + k - 1)), SubSeq(s, i, w - 1))

\* re.search: the leftmost position that matches, the longer digit group first
Search1(s) ==
    IF \E i \in 1..Len(s), k \in 1..2 : Pattern1At(s, i, k)
    THEN LET i == CHOOSE i \in 1..Len(s) :
                    /\ \E k \in 1..2 : Pattern1At(s, i, k)
                    /\ \A h \in 1..(i - 1) : \A k \in 1..2 : ~Pattern1At(s, h, k)
         IN  Pattern1Groups(s, i, IF Pattern1At(s, i, 2) THEN 2 ELSE 1)
    ELSE NoMatch

Search2(s) ==
    IF \E i \in 1..Len(s), k \in 1..2 : Pattern2At(s, i, k)
    THEN LET i == CHOOSE i \in 1..Len(s) :
                    /\ \E k \in 1..2 : Pattern2At(s, i, k)
                    /\ \A h \in 1..(i - 1) : \A k \in 1..2 : ~Pattern2At(s, h, k)
         IN  Pattern2Groups(s, i, IF Pattern2At(s, i, 2) THEN 2 ELSE 1)
    ELSE NoMatch

Search3(s) ==
    IF \E i \in 1..Len(s) : Pattern3At(s, i)
    THEN LET i == CHOOSE i \in 1..Len(s) :
                    /\ Pattern3At(s, i)
                    /\ \A h \in 1..(i - 1) : ~Pattern3At(s, h)
         IN  Pattern3Groups(s, i)
    ELSE NoMatch

NoDate == [found |-> FALSE, date |-> 0]

\* the body run for one pattern's match: month lookup, datetime(year, month,
\* day), the roll to next year; a ValueError of either constructor is passed
TargetDate(m, today) ==
    IF ~m.found \/ ~IsMonthName(m.word) THEN NoDate
    ELSE LET month == MonthNumber(m.word)
             year == YearOf(today.date)
         IN  IF ~ValidDate(year, month, m.day) THEN NoDate
             ELSE IF Ordinal(year, month, m.day) >= today.date
                  THEN [found |-> TRUE, date |-> Ordinal(year, month, m.day)]
             ELSE IF ~ValidDate(year + 1, month, m.day) THEN NoDate
             ELSE [found |-> TRUE, date |-> Ordinal(year + 1, month, m.day)]

\* CreatePlanUsecaseHelper._parse_specific_date
\* the loop over date_patterns: the first pattern that yields a date returns
FirstDate(d1, d2, d3) ==
    IF d1.found THEN d1
    ELSE IF d2.found THEN d2
    ELSE IF d3.found THEN d3
    ELSE NoDate

ParseSpecificDate(goal_lower, today) ==
    FirstDate(TargetDate(Search1(goal_lower), today),
              TargetDate(Search2(goal_lower), today),
              TargetDate(Search3(goal_lower), today))

K_today == <<"t","o","d","a","y">>
K_tomorrow == <<"t","o","m","o","r","r","o","w">>
K_day_after_tomorrow == <<"d","a","y"," ","a","f","t","e","r"," ","t","o","m","o","r","r","o","w">>
K_next_week == <<"n","e","x","t"," ","w","e","e","k">>
K_next_weekend == <<"n","e","x","t"," ","w","e","e","k","e","n","d">>
K_this_weekend == <<"t","h","i","s"," ","w","e","e","k","e","n","d">>
K_next_month == <<"n","e","x","t"," ","m","o","n","t","h">>
K_in == <<"i","n"," ">>
K_day == <<"d","a","y">>
K_week == <<"w","e","e","k">>

\* re.search(r'in (\d+) (day|days|week|weeks)', goal_lower)
InOffsetAt(s, i) ==
    LET n == DigitsFrom(s, i + 3)
    IN  /\ OccursAt(s, K_in, i)
        /\ n >= 1
        /\ OccursAt(s, <<" ">>, i + 3 + n)
        /\ (OccursAt(s, K_day, i + 4 + n) \/ OccursAt(s, K_week, i + 4 + n))

InOffset(s) ==
    IF \E i \in 1..Len(s) : InOffsetAt(s, i)
    THEN LET i == CHOOSE i \in 1..Len(s) : InOffsetAt(s, i) /\ \A h \in 1..(i - 1) : ~InOffsetAt(s, h)
             n == DigitsFrom(s, i + 3)
         IN  [found |-> TRUE,
              number |-> StrToInt(SubSeq(s, i + 3, i + 2 + n)),
              weeks |-> OccursAt(s, K_week, i + 4 + n)]
    ELSE [found |-> FALSE, number |-> 0, weeks |-> FALSE]

\* today.replace(day=1) + timedelta(days=32), then .replace(day=1)
FirstOfNextMonth(date) ==
    LET y == YearOf(date)
        m == MonthOf(date)
    IN  IF m = 12 THEN Ordinal(y + 1, 1, 1) ELSE Ordinal(y, m + 1, 1)

\* today + timedelta(days=n)
Plus(today, n) == DateTime(today.date + n, today.tod)

\* a resolver for which a Monday is its own next Monday
DaysUntilMondayOrToday(wd) == (7 - wd) % 7

\* days_until_monday of the "next week" branch: a full week on a Monday
DaysUntilMonday(wd) == IF (7 - wd) % 7 = 0 THEN 7 ELSE (7 - wd) % 7

\* the if / elif chain of calculate_trip_dates, specific_date being what
\* _parse_specific_date returned and wd today.weekday()
StartDateOf(specific_date, goal_lower, today, wd) ==
        IF specific_date.found THEN DateTime(specific_date.date, 0)
        ELSE IF Contains(goal_lower, K_today) THEN today
        ELSE IF Contains(goal_lower, K_tomorrow) THEN Plus(today, 1)
        ELSE IF Contains(goal_lower, K_day_after_tomorrow) THEN Plus(today, 2)
        ELSE IF Contains(goal_lower, K_next_week)
             THEN Plus(today, DaysUntilMonday(wd))
        ELSE IF Contains(goal_lower, K_next_weekend)
             THEN LET days_until_saturday == (5 - wd) % 7
                  IN  Plus(today, IF days_until_saturday <= 0
                           THEN (IF wd = 6 THEN 6 - wd + 7 ELSE 7 - wd)
                           ELSE days_until_saturday)
        ELSE IF Contains(goal_lower, K_this_weekend)
             THEN LET days_until_saturday == (5 - wd) % 7
                  IN  Plus(today, IF days_until_saturday = 0 /\ wd < 6 THEN days_until_saturday
                           ELSE IF days_until_saturday <= 0 THEN 6
                           ELSE days_until_saturday)
        ELSE IF Contains(goal_lower, K_next_month)
             THEN LET next_month == FirstOfNextMonth(today.date)
                  IN  DateTime(next_month + ((5 - Weekday(next_month)) % 7), today.tod)
        ELSE IF Contains(goal_lower, K_in)
             THEN LET match == InOffset(goal_lower)
                  IN  IF match.found
                      THEN Plus(today, IF match.weeks THEN 7 * match.number ELSE match.number)
                      ELSE today
        ELSE Plus(today, 3)

\* the start date chosen by calculate_trip_dates
StartDate(goal_lower, today) ==
    StartDateOf(ParseSpecificDate(goal_lower, today), goal_lower, today, Weekday(today.date))

\* a calculate_trip_dates that ends the trip duration days after its start
TripDatesInclusive(start_date, duration) ==
    IF start_date.date > MaxOrdinal \/ start_date.date + duration > MaxOrdinal
    THEN Raise("OverflowError")
    ELSE Ok([start_date |-> start_date,
             end_date |-> DateTime(start_date.date + duration, start_date.tod)])

\* CreatePlanUsecaseHelper.calculate_trip_dates: datetime + timedelta raises
\* OverflowError past datetime.max
TripDates(start_date, duration) ==
    IF start_date.date > MaxOrdinal \/ start_date.date + (duration - 1) > MaxOrdinal
    THEN Raise("OverflowError")
    ELSE Ok([start_date |-> start_date,
             end_date |-> DateTime(start_date.date + (duration - 1), start_date.tod)])

CalculateTripDates(goal_text, duration, today) ==
    TripDates(StartDate(Lower(goal_text), today), duration)

-----------------------------------------------------------------------------
(* Step 2b: weather (WeatherService.get_weather_for_trip_dates)            *)
(*                                                                         *)
(* What the weather provider does is an input.  The current-conditions     *)
(* call raises, or returns a payload with or without coordinates.  The     *)
(* forecast call raises, or returns a payload without "list" (the          *)
(* provider's error payload), or a payload whose "list" holds points; the  *)
(* model keeps, of the points, the set of dates that have at least one     *)
(* point, and whether a point lacks a key the aggregation reads.           *)

CurrentRaises == [kind |-> "raise", lat |-> 0]
CurrentNoCoord == [kind |-> "no_coord", lat |-> 0]
CurrentAt(lat) == [kind |-> "coord", lat |-> lat]

ForecastRaises == [kind |-> "raise", dates |-> {}, malformed |-> FALSE]
ForecastNoList == [kind |-> "no_list", dates |-> {}, malformed |-> FALSE]
ForecastList(dates, malformed) == [kind |-> "list", dates |-> dates, malformed |-> malformed]

\* (start_date - today).days: timedelta.days is the floor of the difference
DaysBetween(later, earlier) ==
    (later.date - earlier.date) - (IF later.tod < earlier.tod THEN 1 ELSE 0)

\* the seasons tables of WeatherService._get_seasonal_patterns
Season(month, is_northern) ==
    LET northern == IF month \in {12, 1, 2} THEN "Winter"
                    ELSE IF month \in {3, 4, 5} THEN "Spring"
                    ELSE IF month \in {6, 7, 8} THEN "Summer"
                    ELSE "Autumn"
        southern == IF month \in {12, 1, 2} THEN "Summer"
                    ELSE IF month \in {3, 4, 5} THEN "Autumn"
                    ELSE IF month \in {6, 7, 8} THEN "Winter"
                    ELSE "Spring"
    IN  IF is_northern THEN northern ELSE southern

\* WeatherService._generate_seasonal_weather_estimate: the entry of one day
\* (its data source and season; the temperature profile is not modelled)
SeasonalEstimate(date, current_data) ==
    LET location_lat == IF current_data.kind = "coord" THEN current_data.lat ELSE 0
    IN  [ date |-> DateStr(date),
          weather_available |-> FALSE,
          data_source |-> "Seasonal estimate (forecast unavailable)",
          season |-> Season(MonthOf(date), location_lat >= 0) ]

\* the real-forecast branch of _process_forecast_for_dates for one day
ForecastDay(date) ==
    [ date |-> DateStr(date),
      weather_available |-> TRUE,
      data_source |-> "5-day forecast",
      season |-> "" ]

\* WeatherService._process_forecast_for_dates; forecast_data is None (no
\* call was made) when forecast_available is false
ProcessForecastForDates(forecast_data, start_date, end_date, forecast_available, current_data) ==
    IF forecast_available /\ forecast_data.kind = "no_list" THEN <<>>
    ELSE [ i \in 1..(end_date.date - start_date.date + 1) |->
             LET current_date == start_date.date + (i - 1)
             IN  IF forecast_available /\ forecast_data.kind = "list"
                    /\ current_date \in forecast_data.dates
                 THEN ForecastDay(current_date)
                 ELSE SeasonalEstimate(current_date, current_data) ]

NoWeather == [t |-> "absent"]
WeatherError == [t |-> "error"]

\* WeatherService.get_weather_for_trip_dates: any exception of the provider
\* calls or of the aggregation becomes the {"error": ...} payload
GetWeatherForTripDates(start_date, end_date, now, current_data, forecast_data) ==
    LET days_until_trip == DaysBetween(start_date, now)
        forecast_available == days_until_trip <= 5
    IN  IF current_data.kind = "raise" THEN WeatherError
        ELSE IF forecast_available /\ forecast_data.kind = "raise" THEN WeatherError
        ELSE IF forecast_available /\ forecast_data.kind = "list" /\ forecast_data.malformed
             THEN WeatherError
        ELSE [ t |-> "weather",
               daily_forecasts |-> ProcessForecastForDates(forecast_data, start_date, end_date,
                                                           forecast_available, current_data),
               days_until_trip |-> days_until_trip,
               forecast_available |-> forecast_available,
               weather_source |-> IF forecast_available THEN "OpenWeatherMap 5-day forecast"
                                  ELSE "Seasonal estimates based on location" ]

\* the provider calls get_weather_for_trip_dates makes, in order
WeatherCalls(start_date, now, current_data) ==
    << "current" >> \o
    (IF current_data.kind # "raise" /\ DaysBetween(start_date, now) <= 5
     THEN << "forecast" >> ELSE <<>>)

-----------------------------------------------------------------------------
(* Step 2c: web search (WebSearchService.search) *)

\* the provider raises (the request fails, or the body is not JSON), or
\* returns a payload with n organic results
SearchRaises == [kind |-> "raise", n |-> 0]
SearchReturns(n) == [kind |-> "ok", n |-> n]
\* the provider answers with a JSON object that reports its failure and
\* holds no "organic_results" (an invalid key, an exhausted plan)
SearchErrorPayload == [kind |-> "error_payload", n |-> 0]

\* WebSearchService.search(query, num_results)
Search(query, num_results, outcome) ==
    IF outcome.kind = "raise"
    THEN [error |-> TRUE, query |-> <<>>, total_results |-> 0]
    ELSE [error |-> FALSE, query |-> query,
          total_results |-> IF outcome.n < num_results THEN outcome.n ELSE num_results]

\* the search_queries list built by gather_external_info
RECURSIVE ActivityQueries(_, _)
ActivityQueries(activities, destination) ==
    IF activities = <<>> THEN <<>>
    ELSE << Head(activities).s \o Q_in \o destination >> \o ActivityQueries(Tail(activities), destination)

SearchQueries(info) ==
    (IF Truthy(info.destination)
     THEN << Q_best \o info.destination.s, Q_restaurants \o info.destination.s >>
     ELSE <<>>)
    \o
    (IF Truthy(info.activities) /\ info.activities.t = "list"
     THEN ActivityQueries(info.activities.xs, info.destination.s)
     ELSE <<>>)

\* a gatherer that runs one query more
FirstFour(queries) == SubSeq(queries, 1, IF Len(queries) < 4 THEN Len(queries) ELSE 4)

\* search_queries[:3]
FirstThree(queries) == SubSeq(queries, 1, IF Len(queries) < 3 THEN Len(queries) ELSE 3)

\* search_results[query] = results, for each selected query in order: a dict,
\* kept as the sequence of its items in insertion order
RECURSIVE DictSet(_, _, _)
DictSet(items, key, value) ==
    IF items = <<>> THEN << [key |-> key, value |-> value] >>
    ELSE IF Head(items).key = key THEN << [key |-> key, value |-> value] >> \o Tail(items)
    ELSE << Head(items) >> \o DictSet(Tail(items), key, value)

RECURSIVE RunSearches(_, _, _)
RunSearches(queries, outcomes, done) ==
    IF queries = <<>> THEN done
    ELSE RunSearches(Tail(queries), Tail(outcomes),
                     DictSet(done, Head(queries), Search(Head(queries), 3, Head(outcomes))))

-----------------------------------------------------------------------------
(* Step 2: CreatePlanUsecaseHelper.gather_external_info *)

\* a gatherer that lets a failure of the weather service through
GatherExternalInfoUnguarded(info, dates, now, current_data, forecast_data, outcomes) ==
    IF dates.raised THEN dates
    ELSE IF Truthy(info.destination)
            /\ GetWeatherForTripDates(dates.value.start_date, dates.value.end_date,
                                      now, current_data, forecast_data) = WeatherError
         THEN Raise("ProviderError")
    ELSE Ok([ trip_start_date |-> dates.value.start_date,
              trip_end_date |-> dates.value.end_date,
              trip_duration |-> info.duration,
              weather |-> IF Truthy(info.destination)
                          THEN GetWeatherForTripDates(dates.value.start_date, dates.value.end_date,
                                                      now, current_data, forecast_data)
                          ELSE NoWeather,
              search_results |-> RunSearches(FirstThree(SearchQueries(info)), outcomes, <<>>) ])

\* gather_external_info from the trip dates on: dates is what
\* calculate_trip_dates returned for datetime.now(), now is the
\* datetime.now() of the weather service
GatherExternalInfo(info, dates, now, current_data, forecast_data, outcomes) ==
    IF dates.raised THEN dates
    ELSE Ok([ trip_start_date |-> dates.value.start_date,
              trip_end_date |-> dates.value.end_date,
              trip_duration |-> info.duration,
              weather |-> IF Truthy(info.destination)
                          THEN GetWeatherForTripDates(dates.value.start_date, dates.value.end_date,
                                                      now, current_data, forecast_data)
                          ELSE NoWeather,
              search_results |-> RunSearches(FirstThree(SearchQueries(info)), outcomes, <<>>) ])

\* the provider calls get_weather_for_trip_dates makes for a destination,
\* each with what the provider did
WeatherCallsFor(calls, destination, current_data, forecast_data) ==
    [ i \in 1..Len(calls) |->
        [svc |-> calls[i], arg |-> destination,
         outcome |-> IF calls[i] = "current" THEN current_data ELSE forecast_data] ]

\* the provider calls WebSearchService.search makes for the selected queries
SearchCallsFor(queries, outcomes) ==
    [ i \in 1..Len(queries) |-> [svc |-> "search", arg |-> queries[i], outcome |-> outcomes[i]] ]

\* the provider calls gather_external_info makes, in order
GatherCalls(info, dates, now, current_data, forecast_data, outcomes) ==
    IF dates.raised THEN <<>>
    ELSE (IF Truthy(info.destination)
          THEN WeatherCallsFor(WeatherCalls(dates.value.start_date, now, current_data),
                               info.destination.s, current_data, forecast_data)
          ELSE <<>>)
         \o SearchCallsFor(FirstThree(SearchQueries(info)), outcomes)

-----------------------------------------------------------------------------
(* Step 3: plan synthesis (AIService.generate_plan_structure) *)

\* iterating v raises TypeError: `for x in v` over a number, a bool or None
NotIterable(v) == v.t \in { "int", "bool", "float", "null" }

\* AIService._prepare_plan_context, run before the try block: the two joins
\* iterate extracted_info's activities and preferences; the weather block
\* reads keys every daily entry has
PreparePlanContext(info, external) ==
    IF NotIterable(info.activities) \/ NotIterable(info.preferences)
    THEN Raise("TypeError")
    ELSE Ok(JNull)

\* AIService._get_default_plan_structure
GetDefaultPlanStructure(goal_text, info) ==
    JObj([ goal |-> JAbsent,
           description |-> JStr(S_PlanFor \o goal_text),
           total_duration |-> JStr(IntToStr(info.duration) \o S_days),
           days |-> JList(<<>>) ])

\* the try block of generate_plan_structure, after the model call (no logger
\* is passed by the helper, so the parsed value is returned as it is)
GenerateTry(goal_text, info, response) ==
    IF response.kind = "raise" THEN Raise("ProviderError")
    ELSE IF EmptyResponse(response) THEN Ok(GetDefaultPlanStructure(goal_text, info))
    ELSE JsonLoads(CleanJsonResponse(response.text), response.value)

\* generate_plan_structure without its `except Exception` clause
GeneratePlanStructureUnguarded(goal_text, info, response) ==
    GenerateTry(goal_text, info, response)

\* AIService.generate_plan_structure, from the model's response on
GeneratePlanStructure(goal_text, info, response) ==
    LET attempt == GenerateTry(goal_text, info, response)
    IN  IF attempt.raised THEN Ok(GetDefaultPlanStructure(goal_text, info)) ELSE attempt

-----------------------------------------------------------------------------
(* Step 4: assembly (CreatePlanUsecaseHelper.enrich_plan_with_external_data) *)

\* str(ObjectId()) for the n-th ObjectId handed out
OidStr(n) == <<"#">> \o IntToStr(n)

\* TaskStatus(value): the enum's values
TaskStatusValues == { S_pending, S_in_progress, S_completed }

IsStr(v) == v.t = "str"

\* CreatePlanUsecaseHelper.extract_day_weather_info
ExtractDayWeatherInfo(external, day_date) ==
    IF external.weather.t = "absent" \/ ~Truthy(day_date) THEN <<>>
    ELSE LET daily_forecasts == IF external.weather.t = "weather"
                                THEN external.weather.daily_forecasts ELSE <<>>
             hits == { i \in 1..Len(daily_forecasts) : JStr(daily_forecasts[i].date) = day_date }
         IN  IF hits # {}
             THEN LET first == CHOOSE i \in hits : \A h \in hits : i <= h
                  IN  << [ kind |-> "day",
                           date |-> daily_forecasts[first].date,
                           weather_available |-> daily_forecasts[first].weather_available,
                           data_source |-> daily_forecasts[first].data_source,
                           season |-> daily_forecasts[first].season,
                           weather_source |-> "",
                           forecast_available |-> FALSE ] >>
             ELSE << [ kind |-> "basic",
                       date |-> <<>>,
                       weather_available |-> FALSE,
                       data_source |-> "",
                       season |-> "",
                       weather_source |-> IF external.weather.t = "weather"
                                          THEN external.weather.weather_source ELSE "Unknown",
                       forecast_available |-> IF external.weather.t = "weather"
                                              THEN external.weather.forecast_available ELSE FALSE ] >>

\* results of the assembly loops: the ObjectId counter is threaded through
Built(v, oid) == [raised |-> FALSE, exc |-> "", value |-> v, oid |-> oid]
Failed(e, oid) == [raised |-> TRUE, exc |-> e, value |-> None, oid |-> oid]

\* an assembler that keeps the id the model gave a task, when it gave one
TaskIdFromModel(task_data, oid) ==
    IF task_data.o.id.t = "str" THEN task_data.o.id.s ELSE OidStr(oid)

\* id=str(ObjectId()): the id the assembler gives a task
TaskId(task_data, oid) == OidStr(oid)

\* Task(...) for one raw task: task_data.get on a non-dict, TaskStatus(...) on
\* a value outside the enum, and the str fields of the pydantic model raise
BuildTask(task_data, oid) ==
    IF task_data.t # "obj" THEN Failed("AttributeError", oid + 1)
    ELSE LET o == task_data.o
             title == GetOr(o.title, JStr(<<>>))
             description == GetOr(o.description, JStr(<<>>))
             estimated_duration == GetOr(o.estimated_duration, JStr(<<>>))
             status == GetOr(o.status, JStr(S_pending))
         IN  IF ~(IsStr(status) /\ status.s \in TaskStatusValues) THEN Failed("ValueError", oid + 1)
             ELSE IF ~IsStr(title) \/ ~IsStr(description) \/ estimated_duration.t \notin {"str", "null"}
                  THEN Failed("ValidationError", oid + 1)
             ELSE Built([ id |-> JStr(TaskId(task_data, oid)),
                          title |-> title.s,
                          description |-> description.s,
                          status |-> status.s,
                          estimated_duration |-> estimated_duration ], oid + 1)

\* the inner loop over day_data.get("tasks", [])
RECURSIVE BuildTasks(_, _, _)
BuildTasks(raw_tasks, done, oid) ==
    IF raw_tasks = <<>> THEN Built(done, oid)
    ELSE LET task == BuildTask(Head(raw_tasks), oid)
         IN  IF task.raised THEN task
             ELSE BuildTasks(Tail(raw_tasks), Append(done, task.value), task.oid)

\* Day(...) for one raw day
BuildDay(day_data, external, oid) ==
    IF day_data.t # "obj" THEN Failed("AttributeError", oid)
    ELSE LET o == day_data.o
             raw_tasks == GetOr(o.tasks, JList(<<>>))
         IN  IF raw_tasks.t # "list" THEN Failed("TypeError", oid)
             ELSE LET tasks == BuildTasks(raw_tasks.xs, <<>>, oid)
                      day_number == GetOr(o.day_number, JInt(1))
                      date == Get(o.date)
                      summary == GetOr(o.summary, JStr(<<>>))
                  IN  IF tasks.raised THEN tasks
                      ELSE IF day_number.t # "int" \/ date.t \notin {"str", "null"} \/ ~IsStr(summary)
                           THEN Failed("ValidationError", tasks.oid)
                      ELSE Built([ day_number |-> day_number.i,
                                   date |-> date,
                                   tasks |-> tasks.value,
                                   summary |-> summary.s,
                                   weather_info |-> ExtractDayWeatherInfo(external, date) ], tasks.oid)

\* the outer loop over plan_data.get("days", [])
RECURSIVE BuildDays(_, _, _, _)
BuildDays(raw_days, external, done, oid) ==
    IF raw_days = <<>> THEN Built(done, oid)
    ELSE LET day == BuildDay(Head(raw_days), external, oid)
         IN  IF day.raised THEN day
             ELSE BuildDays(Tail(raw_days), external, Append(done, day.value), day.oid)

\* an assembler that takes the goal from the model's plan, when it has one
PlanGoalFromModel(goal_text, plan_object) ==
    IF plan_object.goal.t = "str" THEN plan_object.goal.s ELSE goal_text

\* goal=goal: the goal the assembler gives the plan
PlanGoal(goal_text, plan_object) == goal_text

\* CreatePlanUsecaseHelper.enrich_plan_with_external_data
EnrichPlanWithExternalData(raw_plan, external, goal_text, oid) ==
    IF raw_plan.t # "obj" THEN Failed("AttributeError", oid)
    ELSE LET o == raw_plan.o
             raw_days == GetOr(o.days, JList(<<>>))
         IN  IF raw_days.t # "list" THEN Failed("TypeError", oid)
             ELSE LET days == BuildDays(raw_days.xs, external, <<>>, oid)
                      description == GetOr(o.description, JStr(<<>>))
                      total_duration == GetOr(o.total_duration, JStr(S_1day))
                  IN  IF days.raised THEN days
                      ELSE IF ~IsStr(description) \/ ~IsStr(total_duration)
                           THEN Failed("ValidationError", days.oid + 1)
                      ELSE Built([ id |-> JStr(OidStr(days.oid)),
                                   goal |-> PlanGoal(goal_text, o),
                                   description |-> description.s,
                                   days |-> days.value,
                                   total_duration |-> total_duration.s,
                                   status |-> "active" ], days.oid + 1)

-----------------------------------------------------------------------------
(* Step 5: persistence (PlanRepository.create, PlanDocument.to_document) *)

\* the task loop of to_document: a task without an id gets a fresh one
DocTask(task, oid) ==
    IF task.id = JNull THEN Built([task EXCEPT !.id = JStr(OidStr(oid))], oid + 1)
    ELSE Built(task, oid)

RECURSIVE DocTasks(_, _, _)
DocTasks(tasks, done, oid) ==
    IF tasks = <<>> THEN Built(done, oid)
    ELSE LET task == DocTask(Head(tasks), oid)
         IN  DocTasks(Tail(tasks), Append(done, task.value), task.oid)

RECURSIVE DocDays(_, _, _)
DocDays(days, done, oid) ==
    IF days = <<>> THEN Built(done, oid)
    ELSE LET tasks == DocTasks(Head(days).tasks, <<>>, oid)
         IN  DocDays(Tail(days), Append(done, [Head(days) EXCEPT !.tasks = tasks.value]), tasks.oid)

\* PlanDocument.to_document: a copy of the plan's dict without its "id"
ToDocument(plan_dict, oid) ==
    LET days == DocDays(plan_dict.days, <<>>, oid)
    IN  Built([ f \in DOMAIN plan_dict \ { "id" } |->
                  IF f = "days" THEN days.value ELSE plan_dict[f] ], days.oid)

\* collection.insert_one(doc): the driver gives the document a fresh _id
InsertOne(doc, oid) ==
    [ f \in DOMAIN doc \cup { "key" } |-> IF f = "key" THEN OidStr(oid) ELSE doc[f] ]

\* PlanRepository.create: the new document and its key, or the driver's error
Create(plan_dict, oid, db_ok) ==
    LET doc == ToDocument(plan_dict, oid)
    IN  IF ~db_ok THEN Failed("PyMongoError", doc.oid)
        ELSE Built(InsertOne(doc.value, doc.oid), doc.oid + 1)

-----------------------------------------------------------------------------
(* Inputs of the pipeline model *)

GoalRomeOct == <<"v", "i", "s", "i", "t", " ", "R", "o", "m", "e", " ", "o", "n", " ", "2", "5", "t", "h", " ", "o", "c", "t">>

\* goal texts callers send
Goals == { GoalParisWeekend, GoalPiano, GoalRomeOct }

\* the days on which requests arrive: 2024-01-10, a Wednesday, and
\* 2024-06-01, a Saturday
TodayDates == { 9, 152 }

GoalObject(destination, duration, activities, preferences, other) ==
    JObj([ destination |-> destination,
           duration |-> duration,
           activities |-> activities,
           preferences |-> preferences,
           budget_considerations |-> other,
           time_of_year |-> other,
           timing_keywords |-> other ])

\* what the model returns for the extraction prompt in the pipeline runs
PipelineGoalValues ==
    { GoalObject(JStr(S_Paris), JInt(2), JList(<< JStr(S_hiking), JStr(S_museums) >>),
                 JList(<< JStr(S_food) >>), JStr(S_food)),
      GoalObject(JStr(S_Paris), JStr(<<"1">>), JInt(5), JAbsent, JNull),
      GoalObject(JAbsent, JAbsent, JList(<< JStr(S_hiking) >>), JNull, JAbsent),
      GoalObject(JStr(S_Paris), JStr(<<"9", "9", "9", "9", "9", "9", "9">>), JNull, JNull, JNull),
      JList(<<>>) }

FencedJson == << "fence_json", "ws", "json", "ws", "fence" >>

PipelineExtractResponses ==
    { AIRaises, AIQuotaExceeded, AINoText, AIText(<<"ws">>, JNull), AIText(<<"junk">>, JNull) }
    \cup { AIText(FencedJson, v) : v \in PipelineGoalValues }

-----------------------------------------------------------------------------
(* CreatePlanUseCase.execute *)

NoError == [stage |-> "", exc |-> ""]

\* an exception reaching the boundary layer: its class, the status of an
\* HTTPException, and whether str(e) holds "429" with "quota", or "rate limit"
Exception(type, quota, rate_limit) ==
    [type |-> type, status |-> 0, quota |-> quota, rate_limit |-> rate_limit]
HTTPException(status_code) ==
    [type |-> "HTTPException", status |-> status_code, quota |-> FALSE, rate_limit |-> FALSE]

\* handle_exceptions, the decorator of every route: the status of the
\* response when the exception e leaves the route handler
HandleExceptions(e) ==
    IF e.type = "HTTPException" THEN e.status
    ELSE IF e.type = "PlanNotFoundError" THEN 404
    ELSE IF e.type = "ExternalServiceError" THEN 503
    ELSE IF e.type = "ValidationError" THEN 422
    ELSE IF e.quota THEN 429
    ELSE IF e.rate_limit THEN 429
    ELSE 500

\* PlanController.create_plan: `except Exception as e` turns whatever left
\* execute into HTTPException(status_code=500)
CreatePlanError(e) == HTTPException(500)

Response(op, plan_id, status) == [op |-> op, plan_id |-> plan_id, status |-> status]
NoResponse == Response("", <<>>, 0)

\* `except Exception as e: ... raise`: the exception leaves execute, and the
\* controller and the route decorator answer the caller
Fail(stage, exc) ==
    /\ pc' = "failed"
    /\ error' = [stage |-> stage, exc |-> exc]
    /\ http_response' = Response("create", <<>>,
                            HandleExceptions(CreatePlanError(Exception(exc, FALSE, FALSE))))

Init ==
    /\ pc = "idle"
    /\ goal = <<>>
    /\ ai_log = <<>>
    /\ extracted_info = None
    /\ external_info = None
    /\ plan_data = None
    /\ enriched_plan = None
    /\ storage = {}
    /\ next_oid = 0
    /\ trace = <<>>
    /\ error = NoError
    /\ ext_log = <<>>
    /\ clock = DateTime(0, 0)
    /\ http_response = NoResponse
    /\ requests = << >>

\* the controller calls execute(request.goal, request.description)
StartRequest ==
    /\ pc = "idle"
    /\ \E g \in Goals : goal' = g
    /\ pc' = "extract_call"
    /\ UNCHANGED << requests, ai_log, extracted_info, external_info, plan_data, enriched_plan,
                    storage, next_oid, trace, error, ext_log, clock, http_response >>

\* a model call that is made a second time when the first one raises
ExtractCallRetry ==
    /\ pc = "extract_call"
    /\ \E r \in PipelineExtractResponses :
          /\ ai_log' = Append(ai_log, [call |-> "extract", response |-> r])
          /\ pc' = IF r.kind = "raise" /\ ai_log = <<>> THEN "extract_call" ELSE "extract"
    /\ UNCHANGED << requests, goal, extracted_info, external_info, plan_data, enriched_plan,
                    storage, next_oid, trace, error, ext_log, clock, http_response >>

\* self.model.generate_content(prompt) of extract_goal_information
ExtractCall ==
    /\ pc = "extract_call"
    /\ \E r \in PipelineExtractResponses :
          ai_log' = Append(ai_log, [call |-> "extract", response |-> r])
    /\ pc' = "extract"
    /\ UNCHANGED << requests, goal, extracted_info, external_info, plan_data, enriched_plan,
                    storage, next_oid, trace, error, ext_log, clock, http_response >>

\* extracted_info["goal"] = goal
WithGoal(info, goal_text) ==
    [ destination |-> info.destination,
      duration |-> info.duration,
      activities |-> info.activities,
      preferences |-> info.preferences,
      budget_considerations |-> info.budget_considerations,
      time_of_year |-> info.time_of_year,
      timing_keywords |-> info.timing_keywords,
      goal |-> goal_text ]

\* step 1, and extracted_info["goal"] = goal
ExtractStep ==
    /\ pc = "extract"
    /\ LET result == ExtractGoalInformation(Last(ai_log).response)
       IN  IF result.raised
           THEN /\ Fail("extract", result.exc)
                /\ UNCHANGED << extracted_info, trace >>
           ELSE /\ extracted_info' = WithGoal(result.value, goal)
                /\ trace' = Append(trace, "extract")
                /\ pc' = "gather"
                /\ UNCHANGED << error, http_response >>
    /\ UNCHANGED << requests, goal, ai_log, external_info, plan_data, enriched_plan,
                    storage, next_oid, ext_log, clock >>

\* what the current-conditions call can return
CurrentOutcomes == { CurrentRaises, CurrentNoCoord, CurrentAt(48) }

\* what the forecast call can return for a trip from start to end
ForecastOutcomes(start, end) ==
    { ForecastRaises, ForecastNoList,
      ForecastList(start..end, FALSE), ForecastList({start}, FALSE), ForecastList({start}, TRUE) }

SearchOutcomes == { SearchRaises, SearchReturns(2) }

\* the forecast outcomes that matter: the call is made only when the
\* current-conditions call returned and the trip starts within five days
ForecastChoices(dates, now, current_data) ==
    IF ~dates.raised /\ Len(WeatherCalls(dates.value.start_date, now, current_data)) = 2
    THEN ForecastOutcomes(dates.value.start_date.date, dates.value.end_date.date)
    ELSE { ForecastRaises }

\* step 2 for one run of the providers
GatherOutcome(result, calls) ==
    IF result.raised
    THEN /\ Fail("gather", result.exc)
         /\ UNCHANGED << external_info, trace, ext_log >>
    ELSE /\ external_info' = result.value
         /\ ext_log' = ext_log \o calls
         /\ trace' = Append(trace, "gather")
         /\ pc' = "generate"
         /\ UNCHANGED << error, http_response >>

\* step 2, for requests arriving on one of the days today_dates and search
\* providers behaving as one of search_outcomes; the weather service reads
\* the clock after gather_external_info has, at the same instant (later = 1)
\* or after it (later = 2)
GatherOn(today_dates, search_outcomes) ==
    /\ pc = "gather"
    /\ \E date \in today_dates, later \in 1..2 :
       \E dates \in { CalculateTripDates(extracted_info.goal, extracted_info.duration,
                                           DateTime(date, 1)) } :
       \E with_weather \in { ~dates.raised /\ Truthy(extracted_info.destination) } :
       \E current_data \in (IF with_weather THEN CurrentOutcomes ELSE { CurrentRaises }) :
       \E forecast_data \in (IF with_weather
                              THEN ForecastChoices(dates, DateTime(date, later), current_data)
                              ELSE { ForecastRaises }) :
       \E outcomes \in [1..(IF dates.raised THEN 0
                              ELSE Len(FirstThree(SearchQueries(extracted_info))))
                          -> search_outcomes] :
          /\ GatherOutcome(GatherExternalInfo(extracted_info, dates, DateTime(date, later),
                                              current_data, forecast_data, outcomes),
                           GatherCalls(extracted_info, dates, DateTime(date, later),
                                       current_data, forecast_data, outcomes))
          /\ clock' = DateTime(date, IF with_weather THEN later ELSE 1)
    /\ UNCHANGED << requests, goal, ai_log, extracted_info, plan_data, enriched_plan, storage, next_oid >>

\* step 2
GatherStep == GatherOn(TodayDates, SearchOutcomes)

RawTask(id, title, description, status) ==
    JObj([ id |-> id, title |-> title, description |-> description, status |-> status,
           estimated_duration |-> JAbsent ])

RawDay(day_number, date, summary, tasks) ==
    JObj([ day_number |-> day_number, date |-> date, summary |-> summary, tasks |-> tasks ])

RawPlan(goal_text, description, total_duration, days) ==
    JObj([ goal |-> goal_text, description |-> description, total_duration |-> total_duration,
           days |-> days ])

\* what the model returns for the plan prompt in the pipeline runs, for a
\* trip starting on date start
PipelineRawPlans(start) ==
    { RawPlan(JStr(S_paraphrase), JStr(S_desc), JStr(S_2days),
              JList(<< RawDay(JInt(1), JStr(DateStr(start)), JStr(S_summary),
                              JList(<< RawTask(JStr(S_t1), JStr(S_Arrive), JStr(S_desc), JStr(S_completed)),
                                       RawTask(JStr(S_t1), JStr(S_Hotel), JAbsent, JAbsent) >>)),
                       RawDay(JInt(2), JStr(DateStr(start + 1)), JStr(S_summary),
                              JList(<< RawTask(JAbsent, JStr(S_Louvre), JStr(S_desc), JStr(S_in_progress)) >>)) >>)),
      RawPlan(JAbsent, JAbsent, JAbsent,
              JList(<< RawDay(JAbsent, JAbsent, JAbsent,
                              JList(<< RawTask(JAbsent, JStr(S_Louvre), JAbsent, JStr(S_pending)) >>)) >>)),
      RawPlan(JAbsent, JStr(S_desc), JStr(S_2days),
              JList(<< RawDay(JInt(1), JStr(<<>>), JStr(S_summary),
                              JList(<< RawTask(JAbsent, JStr(S_Louvre), JStr(S_desc), JStr(S_done)) >>)) >>)),
      RawPlan(JAbsent, JStr(S_desc), JStr(S_2days),
              JList(<< RawDay(JInt(1), JStr(DateStr(0)), JStr(S_summary), JAbsent) >>)),
      RawPlan(JStr(S_paraphrase), JStr(S_desc), JAbsent, JAbsent),
      JList(<<>>) }

PipelinePlanResponses(start) ==
    { AIRaises, AIQuotaExceeded, AIText(<<>>, JNull), AIText(<<"junk">>, JNull) }
    \cup { AIText(<<"json">>, v) : v \in PipelineRawPlans(start) }

\* step 3 up to the model call: _prepare_plan_context, then
\* self.model.generate_content(prompt)
GenerateCall ==
    /\ pc = "generate"
    /\ LET context == PreparePlanContext(extracted_info, external_info)
       IN  IF context.raised
           THEN /\ Fail("generate", context.exc)
                /\ UNCHANGED ai_log
           ELSE /\ \E r \in PipelinePlanResponses(external_info.trip_start_date.date) :
                      ai_log' = Append(ai_log, [call |-> "plan", response |-> r])
                /\ pc' = "generate_parse"
                /\ UNCHANGED << error, http_response >>
    /\ UNCHANGED << requests, goal, extracted_info, external_info, plan_data, enriched_plan,
                    storage, next_oid, trace, ext_log, clock >>

\* step 3 from the model's response on
GenerateStep ==
    /\ pc = "generate_parse"
    /\ LET result == GeneratePlanStructure(goal, extracted_info, Last(ai_log).response)
       IN  IF result.raised
           THEN /\ Fail("generate", result.exc)
                /\ UNCHANGED << plan_data, trace >>
           ELSE /\ plan_data' = result.value
                /\ trace' = Append(trace, "generate")
                /\ pc' = "enrich"
                /\ UNCHANGED << error, http_response >>
    /\ UNCHANGED << requests, goal, ai_log, extracted_info, external_info, enriched_plan,
                    storage, next_oid, ext_log, clock >>

\* step 4
EnrichStep ==
    /\ pc = "enrich"
    /\ LET result == EnrichPlanWithExternalData(plan_data, external_info, goal, next_oid)
       IN  /\ next_oid' = result.oid
           /\ IF result.raised
              THEN /\ Fail("enrich", result.exc)
                   /\ UNCHANGED << enriched_plan, trace >>
              ELSE /\ enriched_plan' = result.value
                   /\ trace' = Append(trace, "enrich")
                   /\ pc' = "save"
                   /\ UNCHANGED << error, http_response >>
    /\ UNCHANGED << requests, goal, ai_log, extracted_info, external_info, plan_data, storage, ext_log, clock >>

\* a step 5 that calls create again when the database refuses the insert
SaveStepRetry ==
    /\ pc = "save"
    /\ \E db_ok \in BOOLEAN :
          LET result == Create(enriched_plan, next_oid, db_ok)
          IN  /\ next_oid' = result.oid
              /\ trace' = Append(trace, "create")
              /\ IF result.raised
                 THEN UNCHANGED << pc, error, enriched_plan, storage, http_response >>
                 ELSE /\ storage' = storage \cup { result.value }
                      /\ enriched_plan' = [enriched_plan EXCEPT !.id = JStr(result.value.key)]
                      /\ pc' = "done"
                      /\ http_response' = Response("create", result.value.key, 201)
                      /\ UNCHANGED error
    /\ UNCHANGED << requests, goal, ai_log, extracted_info, external_info, plan_data, ext_log, clock >>

\* step 5: plan_id = await self.plan_repository.create(plan_dict), then
\* enriched_plan.id = plan_id; the database accepts the insert or raises
SaveStep ==
    /\ pc = "save"
    /\ \E db_ok \in BOOLEAN :
          LET result == Create(enriched_plan, next_oid, db_ok)
          IN  /\ next_oid' = result.oid
              /\ trace' = Append(trace, "create")
              /\ IF result.raised
                 THEN /\ Fail("create", result.exc)
                      /\ UNCHANGED << enriched_plan, storage >>
                 ELSE /\ storage' = storage \cup { result.value }
                      /\ enriched_plan' = [enriched_plan EXCEPT !.id = JStr(result.value.key)]
                      /\ pc' = "done"
                      /\ http_response' = Response("create", result.value.key, 201)
                      /\ UNCHANGED error
    /\ UNCHANGED << requests, goal, ai_log, extracted_info, external_info, plan_data, ext_log, clock >>

Next ==
    \/ StartRequest
    \/ ExtractCall
    \/ ExtractStep
    \/ GatherStep
    \/ GenerateCall
    \/ GenerateStep
    \/ EnrichStep
    \/ SaveStep

Spec == Init /\ [][Next]_vars

-----------------------------------------------------------------------------
(* What a response of the generative model amounts to *)

\* the model call failed: it raised, or returned no text, only white space,
\* or a text that is not one JSON document once the code fences are stripped
FailedResponse(response) ==
    \/ response.kind # "text"
    \/ Strip(response.text) = <<>>
    \/ CleanJsonResponse(response.text) # << "json" >>

AllModelCallsFail == \A i \in 1..Len(ai_log) : FailedResponse(ai_log[i].response)

StagesBeforeCreate == << "extract", "gather", "generate", "enrich" >>

Creates == { i \in 1..Len(trace) : trace[i] = "create" }

-----------------------------------------------------------------------------
(* Properties of CreatePlanUseCase.execute, under Spec *)

\* C1: in one request PlanRepository.create is invoked at most once, and only
\* after extraction, gathering, synthesis and assembly have completed in that
\* order; when one of those stages raises, create is never invoked and
\* storage holds nothing of the request.
CreateOnlyAfterAssembly ==
    /\ Cardinality(Creates) <= 1
    /\ \A i \in Creates : SubSeq(trace, 1, i - 1) = StagesBeforeCreate
    /\ Cardinality(storage) <= 1
    /\ storage # {} => Creates # {}
    /\ error.stage \in { "extract", "gather", "generate", "enrich" }
          => Creates = {} /\ storage = {}

\* C1: a request that went through the four stages and whose plan was stored
CreateOnlyAfterAssemblyWitness ==
    /\ pc = "done"
    /\ trace = StagesBeforeCreate \o << "create" >>
    /\ Cardinality(storage) = 1

\* C2: when every generative-model call of a request fails, no stage of the
\* pipeline raises, and the request, unless the database refuses the insert,
\* ends with exactly one stored plan whose days are empty and whose goal is
\* the caller's goal.
DegradedModelStillPlans ==
    (ai_log # <<>> /\ AllModelCallsFail) =>
        /\ error.stage \in { "", "create" }
        /\ pc = "done" =>
              /\ Len(ai_log) = 2
              /\ enriched_plan.days = <<>>
              /\ enriched_plan.goal = goal
              /\ Cardinality(storage) = 1
              /\ \A doc \in storage : doc.days = <<>> /\ doc.goal = goal

\* C2: both model calls of a finished request failed, the second by raising
DegradedModelStillPlansWitness ==
    /\ pc = "done"
    /\ Len(ai_log) = 2
    /\ AllModelCallsFail
    /\ ai_log[2].response = AIRaises
    /\ storage # {}

\* C5: generate_plan_structure never raises for what steps 1 and 2 produce,
\* and on a failed model call returns the plan with days = [], the
\* description "Plan for: <goal>" and the total duration "<duration> days".
SynthesizeNeverRaises ==
    /\ error.stage # "generate"
    /\ (pc = "enrich" /\ FailedResponse(ai_log[2].response)) =>
          /\ plan_data.t = "obj"
          /\ plan_data.o.days = JList(<<>>)
          /\ plan_data.o.description = JStr(S_PlanFor \o goal)
          /\ plan_data.o.total_duration = JStr(IntToStr(extracted_info.duration) \o S_days)

\* C10: the goal of the plan execute returns, and of the plan it stored, is
\* the caller's goal text, whatever goal text the model's plan carries.
GoalIsCallersText ==
    /\ pc \in { "save", "done" } => enriched_plan.goal = goal
    /\ \A doc \in storage : doc.goal = goal
    /\ pc \notin { "idle", "extract_call", "extract" } /\ error.stage # "extract"
          => extracted_info.goal = goal

\* C10: a stored plan whose model response carried another goal text
GoalIsCallersTextWitness ==
    /\ pc = "done"
    /\ plan_data.o.goal = JStr(S_paraphrase)
    /\ \E doc \in storage : doc.goal = goal /\ doc.days # <<>>

-----------------------------------------------------------------------------
(* Goal extraction on its own: AIService.extract_goal_information applied  *)
(* to every response of the model within the bounds                        *)

\* characters of the duration strings: digits, a sign, a letter
DurationChars == { "0", "5", "7", "-", "x" }

\* what the model can put in the duration field
DurationValues ==
    { JAbsent, JNull, JFloat, JBool(TRUE), JBool(FALSE), JList(<<>>) }
    \cup { JInt(n) : n \in (-1)..MaxInt }
    \cup { JStr(str) : str \in SeqsUpTo(DurationChars, MaxDurStrLen) }

\* the JSON documents the model returns for the extraction prompt
ExtractValues ==
    { GoalObject(JStr(S_Paris), d, JList(<< JStr(S_hiking) >>), JNull, JAbsent) : d \in DurationValues }
    \cup { GoalObject(JAbsent, d, JInt(5), JList(<<>>), JStr(S_food)) : d \in DurationValues }
    \cup { JList(<<>>), JInt(7), JNull, JStr(S_Paris) }

HasJson(text) == \E i \in 1..Len(text) : text[i] = "json"

\* what generate_content can do for the extraction prompt
ExtractResponses ==
    { AIRaises, AINoText }
    \cup { AIText(text, JNull) : text \in { t \in SeqsUpTo(TextSegments, MaxTextLen) : ~HasJson(t) } }
    \cup { AIText(text, v) : text \in { t \in SeqsUpTo(TextSegments, MaxTextLen) : HasJson(t) },
                             v \in ExtractValues }

\* execute has called extract_goal_info and the model has answered
InitExtract ==
    /\ pc = "extract"
    /\ goal \in Goals
    /\ \E r \in ExtractResponses : ai_log = << [call |-> "extract", response |-> r] >>
    /\ extracted_info = None
    /\ external_info = None
    /\ plan_data = None
    /\ enriched_plan = None
    /\ storage = {}
    /\ next_oid = 0
    /\ trace = <<>>
    /\ error = NoError
    /\ ext_log = <<>>
    /\ clock = DateTime(0, 0)
    /\ http_response = NoResponse
    /\ requests = << >>

NextExtract == ExtractStep

SpecExtract == InitExtract /\ [][NextExtract]_vars

\* C3: extract_goal_information never raises, and when the model raises,
\* returns no text or only white space, or returns a text that is not JSON
\* once the fences are stripped, the descriptor is the default: destination
\* "", duration 3, no activities, no preferences, "" in the other fields.
ExtractNeverRaises ==
    /\ error = NoError
    /\ pc \in { "extract", "gather" }
    /\ (pc = "gather" /\ FailedResponse(ai_log[1].response)) =>
          /\ extracted_info.destination = JStr(<<>>)
          /\ extracted_info.duration = 3
          /\ extracted_info.activities = JList(<<>>)
          /\ extracted_info.preferences = JList(<<>>)
          /\ extracted_info.budget_considerations = JStr(<<>>)
          /\ extracted_info.time_of_year = JStr(<<>>)
          /\ extracted_info.timing_keywords = JStr(<<>>)

\* C3: the default descriptor returned for a fenced text that is not JSON
ExtractNeverRaisesWitness ==
    /\ pc = "gather"
    /\ ai_log[1].response.text = << "fence_json", "junk", "fence" >>
    /\ extracted_info.duration = 3
    /\ extracted_info.destination = JStr(<<>>)

\* the duration the descriptor is to hold for the value v of the field
ClaimedDuration(v) ==
    CASE v.t = "int" -> Max(1, v.i)
      [] v.t = "str" -> IF FirstDigits(v.s) # <<>> THEN Max(1, StrToInt(FirstDigits(v.s))) ELSE 3
      [] OTHER -> 3

\* C4: for every value of the duration field of a parsed JSON object, the
\* descriptor's duration is an integer >= 1: max(1, n) for an integer n,
\* max(1, first run of digits) for a string with a digit, 3 for a string
\* without one, for a missing field and for a value of any other type.
DurationNormalized ==
    (pc = "gather" /\ ~FailedResponse(ai_log[1].response) /\ ai_log[1].response.value.t = "obj") =>
        /\ extracted_info.duration \in Nat
        /\ extracted_info.duration >= 1
        /\ extracted_info.duration = ClaimedDuration(ai_log[1].response.value.o.duration)

-----------------------------------------------------------------------------
(* Assembly and persistence on their own: steps 4 and 5 applied to every   *)
(* raw plan within the bounds, after steps 1 to 3 of a request made on     *)
(* 2024-01-10 for GoalPiano.  The raw plans are well formed but for what   *)
(* their tasks say of id, description and status and their days of date.   *)

AssembleToday == DateTime(9, 1)

\* what the model extracted: with a destination (weather is fetched) or not
AssembleGoalValues ==
    { GoalObject(JStr(S_Paris), JInt(2), JList(<<>>), JNull, JNull),
      GoalObject(JAbsent, JInt(2), JList(<<>>), JNull, JNull) }

\* the raw tasks: complete; without id, description and status; with a
\* status outside the enum
AssembleRawTasks ==
    { RawTask(JStr(S_t1), JStr(S_Arrive), JStr(S_desc), JStr(S_completed)),
      RawTask(JAbsent, JStr(S_Hotel), JAbsent, JAbsent),
      RawTask(JStr(S_t1), JStr(S_Louvre), JStr(S_desc), JStr(S_done)) }

\* the raw dates: the first day of the trip, a day outside it, "", missing
AssembleRawDates(start) ==
    { JStr(DateStr(start)), JStr(DateStr(start + 40)), JStr(<<>>), JAbsent }

RECURSIVE SumTo(_, _)
SumTo(counts, n) == IF n = 0 THEN 0 ELSE counts[n] + SumTo(counts, n - 1)

\* how many raw tasks each raw day of a plan holds: at most MaxDays days
\* with at most MaxTasks tasks between them
AssembleShapes ==
    UNION { { counts \in [1..n -> 0..MaxTasks] : SumTo(counts, n) <= MaxTasks } :
            n \in 0..MaxDays }

\* the raw plan whose day d has the date dates[d] and the next counts[d]
\* of the tasks
AssembleRawPlan(counts, dates, tasks) ==
    RawPlan(JStr(S_paraphrase), JStr(S_desc), JStr(S_2days),
            JList([ d \in 1..Len(counts) |->
                      RawDay(JInt(1), dates[d], JStr(S_summary),
                             JList([ k \in 1..counts[d] |->
                                       tasks[SumTo(counts, d - 1) + k] ])) ]))

AllSearchesReturn(queries) == [ i \in 1..Len(queries) |-> SearchReturns(2) ]

\* what steps 1 and 2 leave behind for the extracted value v: the
\* descriptor, the external context and the provider calls made, for each
\* behaviour of the weather provider
AssembleContextsAt(v, info, dates) ==
    UNION { { [ value |-> v,
                info |-> info,
                start |-> dates.value.start_date.date,
                external_info |->
                    GatherExternalInfo(info, dates, AssembleToday, current_data, forecast_data,
                                       AllSearchesReturn(FirstThree(SearchQueries(info)))).value,
                calls |-> GatherCalls(info, dates, AssembleToday, current_data, forecast_data,
                                      AllSearchesReturn(FirstThree(SearchQueries(info)))) ] :
              forecast_data \in ForecastChoices(dates, AssembleToday, current_data) } :
            current_data \in CurrentOutcomes }

AssembleContextsFor(v, info) ==
    AssembleContextsAt(v, info, CalculateTripDates(info.goal, info.duration, AssembleToday))

AssembleContexts ==
    UNION { AssembleContextsFor(
                v, WithGoal(ExtractGoalInformation(AIText(FencedJson, v)).value, GoalPiano)) :
            v \in AssembleGoalValues }

\* execute has run steps 1 to 3 and is about to assemble
InitAssemble ==
    /\ pc = "enrich"
    /\ goal = GoalPiano
    /\ \E context \in AssembleContexts :
       \E counts \in AssembleShapes :
       \E dates \in [1..Len(counts) -> AssembleRawDates(context.start)] :
       \E tasks \in [1..SumTo(counts, Len(counts)) -> AssembleRawTasks] :
       \E raw \in { AssembleRawPlan(counts, dates, tasks) } :
          /\ extracted_info = context.info
          /\ external_info = context.external_info
          /\ ext_log = context.calls
          /\ ai_log = << [call |-> "extract", response |-> AIText(FencedJson, context.value)],
                         [call |-> "plan", response |-> AIText(<< "json" >>, raw)] >>
          /\ plan_data = raw
    /\ enriched_plan = None
    /\ storage = {}
    /\ next_oid = 0
    /\ trace = << "extract", "gather", "generate" >>
    /\ error = NoError
    /\ clock = AssembleToday
    /\ http_response = NoResponse
    /\ requests = << >>

NextAssemble ==
    \/ EnrichStep
    \/ SaveStep

SpecAssemble == InitAssemble /\ [][NextAssemble]_vars

\* the plan has been assembled
Assembled == pc \in { "save", "done" } \/ (pc = "failed" /\ error.stage = "create")

\* positions of the days, and of the tasks of day d, of the raw plan
DayIndexes == 1..Len(plan_data.o.days.xs)
TaskIndexes(d) == 1..Len(plan_data.o.days.xs[d].o.tasks.xs)
RawTaskAt(d, k) == plan_data.o.days.xs[d].o.tasks.xs[k].o
TaskAt(d, k) == enriched_plan.days[d].tasks[k]
TaskPositions == UNION { { << d, k >> : k \in TaskIndexes(d) } : d \in DayIndexes }

\* the number of tasks of the days before day d
RECURSIVE TasksBefore(_)
TasksBefore(d) == IF d <= 1 THEN 0 ELSE TasksBefore(d - 1) + Len(plan_data.o.days.xs[d - 1].o.tasks.xs)

\* C6: assembly does not fail on a raw task whose status is absent or is not
\* one of pending, in_progress, completed: the Task gets the status
\* "pending" and the Plan is produced.
AssembleToleratesStatus ==
    pc # "enrich" =>
        /\ error.stage # "enrich"
        /\ \A p \in TaskPositions :
              (\/ RawTaskAt(p[1], p[2]).status = JAbsent
               \/ RawTaskAt(p[1], p[2]).status.s \notin TaskStatusValues)
              => TaskAt(p[1], p[2]).status = S_pending

\* C7: the Task assembled, and the Task stored, for a raw task without a
\* description has the raw task's title as its description.
DescriptionDefaultsToTitle ==
    Assembled =>
        \A p \in TaskPositions :
            RawTaskAt(p[1], p[2]).description = JAbsent =>
                /\ TaskAt(p[1], p[2]).description = RawTaskAt(p[1], p[2]).title.s
                /\ \A doc \in storage :
                      doc.days[p[1]].tasks[p[2]].description = RawTaskAt(p[1], p[2]).title.s

\* C8: the Task ids of an assembled plan are pairwise distinct across its
\* days; each is the ObjectId drawn for the task's position, whatever id the
\* raw task carries (none, or one shared with other raw tasks), and is none
\* of the raw ids; the stored plan keeps the same ids.
TaskIdsDistinct ==
    Assembled =>
        /\ \A p, q \in TaskPositions :
              p # q => TaskAt(p[1], p[2]).id # TaskAt(q[1], q[2]).id
        /\ \A p \in TaskPositions :
              /\ TaskAt(p[1], p[2]).id = JStr(OidStr(TasksBefore(p[1]) + p[2] - 1))
              /\ \A q \in TaskPositions : TaskAt(p[1], p[2]).id # RawTaskAt(q[1], q[2]).id
              /\ \A doc \in storage :
                    doc.days[p[1]].tasks[p[2]].id = TaskAt(p[1], p[2]).id

\* C8: a stored two-day plan whose raw tasks share the id "t1" across days
TaskIdsDistinctWitness ==
    /\ pc = "done"
    /\ Len(enriched_plan.days) = 2
    /\ TaskIndexes(1) = 1..1
    /\ TaskIndexes(2) = 1..1
    /\ RawTaskAt(1, 1).id = JStr(S_t1)
    /\ RawTaskAt(2, 1).id = JStr(S_t1)
    /\ TaskAt(1, 1).id # TaskAt(2, 1).id
    /\ storage # {}

\* the entries of the weather timeline whose date is the date of day d
TimelineHits(d) ==
    { i \in 1..Len(external_info.weather.daily_forecasts) :
        JStr(external_info.weather.daily_forecasts[i].date) = enriched_plan.days[d].date }

\* C9: with a weather timeline present every assembled Day has a weatherInfo
\* of one element: the timeline entry of the day's date when there is one,
\* otherwise the fallback carrying the timeline's source and
\* forecast-availability flag; this for a day without a date too.
WeatherAlwaysAttached ==
    (/\ Assembled
     /\ external_info.weather.t = "weather"
     /\ external_info.weather.daily_forecasts # <<>>) =>
        \A d \in DayIndexes :
            LET weather_info == enriched_plan.days[d].weather_info
            IN  /\ Len(weather_info) = 1
                /\ IF TimelineHits(d) # {}
                   THEN /\ weather_info[1].kind = "day"
                        /\ JStr(weather_info[1].date) = enriched_plan.days[d].date
                        /\ \E i \in TimelineHits(d) :
                              weather_info[1].data_source
                                  = external_info.weather.daily_forecasts[i].data_source
                   ELSE /\ weather_info[1].kind = "basic"
                        /\ weather_info[1].weather_source = external_info.weather.weather_source
                        /\ weather_info[1].forecast_available
                              = external_info.weather.forecast_available

-----------------------------------------------------------------------------
(* Date resolution alone: calculate_trip_dates applied to goal texts that    *)
(* reach each branch of its if / elif chain, on each day of a week and on   *)
(* the last days of a year.                                                 *)

MaxDuration == 3     \* durations of the descriptors given to gather_external_info

GoalToday == <<"s", "u", "r", "f", " ", "t", "o", "d", "a", "y">>
GoalTomorrow == <<"h", "i", "k", "e", " ", "t", "o", "m", "o", "r", "r", "o", "w">>
GoalDayAfterTomorrow == <<"d", "a", "y", " ", "a", "f", "t", "e", "r", " ", "t", "o", "m", "o", "r", "r", "o", "w">>
GoalNextWeek == <<"R", "o", "m", "e", " ", "n", "e", "x", "t", " ", "w", "e", "e", "k">>
GoalNextWeekend == <<"n", "e", "x", "t", " ", "w", "e", "e", "k", "e", "n", "d">>
GoalThisWeekend == <<"t", "h", "i", "s", " ", "w", "e", "e", "k", "e", "n", "d">>
GoalNextMonth == <<"O", "s", "l", "o", " ", "n", "e", "x", "t", " ", "m", "o", "n", "t", "h">>
GoalIn5Days == <<"i", "n", " ", "5", " ", "d", "a", "y", "s">>
GoalIn6Days == <<"i", "n", " ", "6", " ", "d", "a", "y", "s">>
GoalIn2Weeks == <<"i", "n", " ", "2", " ", "w", "e", "e", "k", "s">>
GoalInParis == <<"i", "n", " ", "P", "a", "r", "i", "s">>
Goal16Jan == <<"1", "6", " ", "j", "a", "n">>
Goal1stMarch == <<"1", "s", "t", " ", "M", "a", "r", "c", "h">>
GoalOctober25 == <<"o", "c", "t", "o", "b", "e", "r", " ", "2", "5">>
Goal31Feb == <<"3", "1", " ", "f", "e", "b">>

\* goal texts for the branches of calculate_trip_dates: "31 feb" matches a
\* date pattern and is no date, "in Paris" holds "in " and no offset
Goal5thJan == <<"v", "i", "s", "i", "t", " ", "o", "n", " ", "5", "t", "h", " ", "j", "a", "n">>
Goal3DayTrip25Oct == <<"3", " ", "d", "a", "y", " ", "t", "r", "i", "p", " ", "o", "n", " ", "2", "5", " ", "o", "c", "t">>
GoalTripToGoa == <<"t", "r", "i", "p", " ", "t", "o", " ", "G", "o", "a">>

DateGoals ==
    { GoalToday, GoalTomorrow, GoalDayAfterTomorrow, GoalNextWeek, GoalNextWeekend,
      GoalThisWeekend, GoalNextMonth, GoalIn5Days, GoalIn6Days, GoalIn2Weeks, GoalInParis,
      Goal16Jan, Goal1stMarch, GoalOctober25, Goal31Feb, GoalPiano,
      Goal5thJan, Goal3DayTrip25Oct, GoalTripToGoa }

\* 2024-01-10 .. 2024-01-16, a Wednesday to a Tuesday, and 2024-12-30, 2024-12-31
DateTodayDates == 9..15 \cup { 364, 365 }

\* a duration no datetime can hold
HugeDuration == MaxOrdinal + 1

\* the descriptor of a goal: what extraction returns when the model names
\* the destination, the duration and the activities
Descriptor(goal_text, destination, duration, activities) ==
    WithGoal([GetDefaultGoalInfo EXCEPT !.destination = JStr(destination),
                                        !.duration = duration,
                                        !.activities = JList(activities)], goal_text)

\* execute has run step 1 for a goal without destination
InitDates ==
    /\ pc = "gather"
    /\ goal \in DateGoals
    /\ \E duration \in 1..MaxDuration \cup { HugeDuration } :
          extracted_info = Descriptor(goal, <<>>, duration, <<>>)
    /\ ai_log = << [call |-> "extract", response |-> AINoText] >>
    /\ external_info = None
    /\ plan_data = None
    /\ enriched_plan = None
    /\ storage = {}
    /\ next_oid = 0
    /\ trace = << "extract" >>
    /\ error = NoError
    /\ ext_log = <<>>
    /\ clock = DateTime(0, 0)
    /\ http_response = NoResponse
    /\ requests = << >>

GatherAnyDay == GatherOn(DateTodayDates, SearchOutcomes)

NextDates == GatherAnyDay

SpecDates == InitDates /\ [][NextDates]_vars

\* gather_external_info has returned
Gathered == pc = "generate" /\ external_info # None

\* C11: for every goal text, reference day and duration d >= 1, whichever
\* branch of calculate_trip_dates chose the start, the end date returned is
\* the start date plus d - 1 days.
EndIsStartPlusDuration ==
    Gathered =>
        /\ extracted_info.duration >= 1
        /\ external_info.trip_end_date.date
             = external_info.trip_start_date.date + (extracted_info.duration - 1)
        /\ external_info.trip_end_date.tod = external_info.trip_start_date.tod

\* C11: a three-day trip "next month" asked for on 2024-12-31: the first
\* Saturday of January 2025 to the Monday after it
EndIsStartPlusDurationWitness ==
    /\ Gathered
    /\ goal = GoalNextMonth
    /\ clock.date = 365
    /\ extracted_info.duration = 3
    /\ external_info.trip_start_date.date = Ordinal(2025, 1, 4)
    /\ external_info.trip_end_date.date = Ordinal(2025, 1, 6)

-----------------------------------------------------------------------------
(* Gathering alone: gather_external_info for descriptors with and without   *)
(* destination, trips inside, at the edge of and beyond the forecast        *)
(* horizon, and weather and search providers that fail in each way.         *)

MaxActivities == 2   \* activities listed in a descriptor

S_restaurants == <<"r", "e", "s", "t", "a", "u", "r", "a", "n", "t", "s">>

\* asked on 2024-01-10: trips starting that day, 3, 5 and 6 days later, on
\* 2024-01-16 at midnight, and on 2024-10-25
GatherGoals == { GoalToday, GoalPiano, GoalIn5Days, GoalIn6Days, Goal16Jan, GoalOctober25 }

GatherTodayDates == { 9 }

\* an activity named "restaurants" repeats the second fixed query
GatherActivities == { JStr(S_hiking), JStr(S_restaurants) }

GatherSearchOutcomes == { SearchRaises, SearchReturns(2), SearchErrorPayload }

\* execute has run step 1
InitGather ==
    /\ pc = "gather"
    /\ goal \in GatherGoals
    /\ \E destination \in { S_Paris, <<>> }, duration \in 1..MaxDuration,
          activities \in SeqsUpTo(GatherActivities, MaxActivities) :
          extracted_info = Descriptor(goal, destination, duration, activities)
    /\ ai_log = << [call |-> "extract", response |-> AINoText] >>
    /\ external_info = None
    /\ plan_data = None
    /\ enriched_plan = None
    /\ storage = {}
    /\ next_oid = 0
    /\ trace = << "extract" >>
    /\ error = NoError
    /\ ext_log = <<>>
    /\ clock = DateTime(0, 0)
    /\ http_response = NoResponse
    /\ requests = << >>

GatherWithFailures == GatherOn(GatherTodayDates, GatherSearchOutcomes)

NextGather == GatherWithFailures

SpecGather == InitGather /\ [][NextGather]_vars

\* the calls of the log made to one provider endpoint, in order
RECURSIVE CallsTo(_, _)
CallsTo(log, svc) ==
    IF log = <<>> THEN <<>>
    ELSE (IF Head(log).svc = svc THEN << Head(log) >> ELSE <<>>) \o CallsTo(Tail(log), svc)

\* the weather provider answered each call made to it with a payload: no
\* call raised, no forecast point lacks a field
WeatherPayloads ==
    /\ \A i \in 1..Len(ext_log) : ext_log[i].outcome.kind # "raise"
    /\ \A i \in 1..Len(CallsTo(ext_log, "forecast")) :
          ~CallsTo(ext_log, "forecast")[i].outcome.malformed

TripStart == external_info.trip_start_date
TripEnd == external_info.trip_end_date

Timeline == external_info.weather.daily_forecasts

\* gather has asked the weather service about a destination
WeatherAsked == Gathered /\ Truthy(extracted_info.destination)

\* C12: for a trip of d days with a destination, whatever payloads the
\* weather provider returns (the forecast feed's error payload without
\* points included), the weather timeline has exactly d entries, one per
\* calendar day from the start date to the end date, in increasing
\* contiguous order.
TimelineCoversTrip ==
    (WeatherAsked /\ WeatherPayloads) =>
        /\ external_info.weather.t = "weather"
        /\ Len(Timeline) = extracted_info.duration
        /\ \A i \in 1..Len(Timeline) : Timeline[i].date = DateStr(TripStart.date + (i - 1))
        /\ TripStart.date + (Len(Timeline) - 1) = TripEnd.date

\* the instant later is at most n days after the instant earlier
AtMostDaysAfter(later, earlier, n) ==
    \/ later.date - earlier.date < n
    \/ later.date - earlier.date = n /\ later.tod <= earlier.tod

ForecastFetched == CallsTo(ext_log, "forecast") # <<>>

\* C13: once the current-conditions call has returned, the forecast feed is
\* fetched if and only if the trip starts at most 5 days after the weather
\* service's now; for a later start every timeline entry is a seasonal
\* estimate; within the horizon a day is a real forecast exactly when the
\* feed holds a point for that calendar day, and is otherwise a seasonal
\* estimate flagged weather_available = false.
ForecastWithinHorizon ==
    (WeatherAsked /\ CallsTo(ext_log, "current")[1].outcome.kind # "raise") =>
        /\ ForecastFetched <=> AtMostDaysAfter(TripStart, clock, 5)
        /\ ~AtMostDaysAfter(TripStart, clock, 5) =>
              /\ external_info.weather.t = "weather"
              /\ \A i \in 1..Len(Timeline) :
                    /\ ~Timeline[i].weather_available
                    /\ Timeline[i].data_source = "Seasonal estimate (forecast unavailable)"
        /\ (ForecastFetched /\ external_info.weather.t = "weather") =>
              \A i \in 1..Len(Timeline) :
                 \E day \in { TripStart.date + (i - 1) } :
                    IF day \in CallsTo(ext_log, "forecast")[1].outcome.dates
                    THEN Timeline[i] = ForecastDay(day)
                    ELSE /\ ~Timeline[i].weather_available
                         /\ Timeline[i].data_source = "Seasonal estimate (forecast unavailable)"

\* the texts of the searches gather made, in order
Searches == [ i \in 1..Len(CallsTo(ext_log, "search")) |-> CallsTo(ext_log, "search")[i].arg ]

AtMostThree(queries) == [ i \in 1..(IF Len(queries) < 3 THEN Len(queries) ELSE 3) |-> queries[i] ]

\* one "<activity> in X" per listed activity, in list order
ClaimedActivityQueries(activities, X) ==
    [ i \in 1..Len(activities) |-> activities[i].s \o <<" ", "i", "n", " ">> \o X ]

\* "best places to visit in X", "restaurants in X", then the activities
ClaimedQueries(activities, X) ==
    << <<"b", "e", "s", "t", " ", "p", "l", "a", "c", "e", "s", " ", "t", "o", " ",
         "v", "i", "s", "i", "t", " ", "i", "n", " ">> \o X,
       <<"r", "e", "s", "t", "a", "u", "r", "a", "n", "t", "s", " ", "i", "n", " ">> \o X >>
    \o ClaimedActivityQueries(activities, X)

\* C14, as stated: for any descriptor gather executes at most 3 searches,
\* the first 3 of "best places to visit in X", "restaurants in X" and one
\* "<activity> in X" per activity (for a descriptor without destination:
\* with an empty X, or no query at all).
SearchesAreFirstThreeForAny ==
    Gathered =>
        /\ Len(Searches) <= 3
        /\ \/ Searches = AtMostThree(ClaimedQueries(extracted_info.activities.xs,
                                                     extracted_info.destination.s))
           \/ extracted_info.destination.s = <<>> /\ Searches = <<>>

\* C14, amended: gather executes at most 3 searches however many activities
\* are listed; for a descriptor with a destination X they are the first 3
\* of "best places to visit in X", "restaurants in X" and one
\* "<activity> in X" per activity in list order; for a descriptor without
\* destination they are the first 3 of the queries "<activity> in " alone.
SearchesAreFirstThree ==
    Gathered =>
        /\ Len(Searches) <= 3
        /\ Searches = AtMostThree(IF extracted_info.destination.s # <<>>
                                  THEN ClaimedQueries(extracted_info.activities.xs,
                                                      extracted_info.destination.s)
                                  ELSE ClaimedActivityQueries(extracted_info.activities.xs, <<>>))

SearchesAreFirstThreeWitness ==
    /\ Gathered
    /\ extracted_info.destination.s = S_Paris
    /\ extracted_info.activities.xs = << JStr(S_restaurants), JStr(S_hiking) >>
    /\ Len(Searches) = 3
    /\ Searches[3] = S_restaurants \o <<" ", "i", "n", " ">> \o S_Paris

\* the entries the search_results map holds for a query text
ResultsFor(query) ==
    { i \in 1..Len(external_info.search_results) : external_info.search_results[i].key = query }

SearchFailed(outcome) == outcome.kind \in { "raise", "error_payload" }

\* C15: no exception leaves gather on account of a search; every selected
\* query is executed and has an entry in the map; and the entry of a query
\* whose search failed (the provider raised, or returned a payload without
\* results that reports its failure) holds an error marker and no results.
SearchFailureIsMarked ==
    /\ pc # "failed"
    /\ Gathered =>
          /\ Len(Searches) = Len(FirstThree(SearchQueries(extracted_info)))
          /\ \A i \in 1..Len(Searches) :
                /\ ResultsFor(Searches[i]) # {}
                /\ SearchFailed(CallsTo(ext_log, "search")[i].outcome) =>
                      \A k \in ResultsFor(Searches[i]) :
                         /\ external_info.search_results[k].value.error
                         /\ external_info.search_results[k].value.total_results = 0

-----------------------------------------------------------------------------
(* Provider failures within CreatePlanUseCase.execute, under Spec *)

\* a call to the weather provider failed: it raised, the forecast feed
\* returned its error payload, or a forecast point lacks a field
WeatherCallFailed(entry) ==
    /\ entry.svc \in { "current", "forecast" }
    /\ \/ entry.outcome.kind \in { "raise", "no_list" }
       \/ entry.svc = "forecast" /\ entry.outcome.malformed

WeatherFailed == \E i \in 1..Len(ext_log) : WeatherCallFailed(ext_log[i])

\* what gather returned, had no weather been asked for
WithoutWeather == [external_info EXCEPT !.weather = NoWeather]

HoldsNoForecast(days) ==
    \A i \in 1..Len(days) :
       \A k \in 1..Len(days[i].weather_info) : days[i].weather_info[k].kind # "day"

QuotaExceeded == \E i \in 1..Len(ai_log) : ai_log[i].response = AIQuotaExceeded

\* C17: a request during which a model call raised the quota / rate-limit
\* error is answered with status 429: not with 500, and not with a
\* created plan.
QuotaErrorIs429 ==
    (pc \in { "done", "failed" } /\ QuotaExceeded) =>
        /\ http_response.status = 429
        /\ storage = {}

\* the calls of the request to one operation of the generative model
ModelCalls(call) == { i \in 1..Len(ai_log) : ai_log[i].call = call }

StageDone(stage) == \E i \in 1..Len(trace) : trace[i] = stage

\* C19: within one request no external call is retried, whether it
\* succeeds or fails: the extraction call and the synthesis call are made
\* at most once, and exactly once by the time their stage is over; the
\* current-conditions call and the forecast call are made at most once;
\* and once gathering is over each selected search query has been sent
\* exactly once, in order.
NoCallRetried ==
    /\ Cardinality(ModelCalls("extract")) <= 1
    /\ Cardinality(ModelCalls("plan")) <= 1
    /\ pc \notin { "idle", "extract_call" } => ModelCalls("extract") = { 1 }
    /\ (pc = "generate_parse" \/ StageDone("generate")) => ModelCalls("plan") = { 2 }
    /\ Len(CallsTo(ext_log, "current")) <= 1
    /\ Len(CallsTo(ext_log, "forecast")) <= 1
    /\ Len(CallsTo(ext_log, "search")) <= 3
    /\ StageDone("gather") =>
          /\ Len(Searches) = Len(FirstThree(SearchQueries(extracted_info)))
          /\ \A i \in 1..Len(Searches) : Searches[i] = FirstThree(SearchQueries(extracted_info))[i]
          /\ Truthy(extracted_info.destination) => Len(CallsTo(ext_log, "current")) = 1
    /\ ~StageDone("gather") => ext_log = <<>>

\* C19: a finished request in which the synthesis call, the forecast call
\* and a search each failed and were made once
NoCallRetriedWitness ==
    /\ pc = "done"
    /\ Len(ai_log) = 2
    /\ ai_log[2].response = AIRaises
    /\ Len(CallsTo(ext_log, "forecast")) = 1
    /\ CallsTo(ext_log, "forecast")[1].outcome.kind = "raise"
    /\ Len(Searches) = 3
    /\ CallsTo(ext_log, "search")[1].outcome.kind = "raise"

-----------------------------------------------------------------------------
(* The stored plans and the routes that read, update and delete them:      *)
(* PlanController.get_plan, update_plan, update_plan_status, delete_plan,  *)
(* each handled from request to response before the next request           *)

MaxRequests == 3   \* requests served after the plans were created

\* a < b, for two readings of the clock
Earlier(a, b) == a.date < b.date \/ (a.date = b.date /\ a.tod < b.tod)

EmptyDict == [t |-> "dict"]

\* Task(..., external_info={}).dict(), as the assembler builds its tasks
TaskDict(task) ==
    [ id |-> task.id, title |-> task.title, description |-> task.description,
      status |-> task.status, estimated_duration |-> task.estimated_duration,
      external_info |-> EmptyDict ]

\* enriched_plan.dict(): created_at and updated_at are datetime.utcnow() of
\* the moment the Plan was built
PlanDict(plan, now) ==
    [ id |-> plan.id,
      goal |-> plan.goal,
      description |-> plan.description,
      days |-> [ i \in 1..Len(plan.days) |->
                   [plan.days[i] EXCEPT !.tasks = [ k \in 1..Len(plan.days[i].tasks) |->
                                                      TaskDict(plan.days[i].tasks[k]) ]] ],
      total_duration |-> plan.total_duration,
      created_at |-> now,
      updated_at |-> now,
      status |-> plan.status ]

\* PlanDocument.from_document for a task: external_info is dropped, an empty
\* description becomes the title
TaskFromDocument(task) ==
    [ id |-> task.id, title |-> task.title,
      description |-> IF task.description = <<>> THEN task.title ELSE task.description,
      status |-> task.status, estimated_duration |-> task.estimated_duration ]

\* PlanDocument.from_document: _id becomes id
FromDocument(doc) ==
    [ f \in (DOMAIN doc \ { "key" }) \cup { "id" } |->
        IF f = "id" THEN JStr(doc.key)
        ELSE IF f = "days"
             THEN [ i \in 1..Len(doc.days) |->
                      [doc.days[i] EXCEPT !.tasks = [ k \in 1..Len(doc.days[i].tasks) |->
                                                        TaskFromDocument(doc.days[i].tasks[k]) ]] ]
        ELSE doc[f] ]

\* Plan(**data) and its dict(): a task without external_info has None
PlanOf(data) ==
    [ data EXCEPT !.days = [ i \in 1..Len(data.days) |->
        [data.days[i] EXCEPT !.tasks = [ k \in 1..Len(data.days[i].tasks) |->
            [ f \in DOMAIN data.days[i].tasks[k] \cup { "external_info" } |->
                IF f = "external_info" THEN JNull ELSE data.days[i].tasks[k][f] ] ]] ] ]

\* PlanRepository.get_by_id: the dict of the document, or None when no
\* document has the id or the driver raises
GetById(plan_id, db_ok) ==
    IF db_ok /\ \E doc \in storage : doc.key = plan_id
    THEN FromDocument(CHOOSE doc \in storage : doc.key = plan_id)
    ELSE None

\* GetPlanUseCase.execute
GetPlanUseCase(plan_id, db_ok) ==
    IF GetById(plan_id, db_ok) # None THEN PlanOf(GetById(plan_id, db_ok)) ELSE None

\* {"$set": doc} applied to one stored document
SetFields(stored, doc) ==
    [ f \in DOMAIN stored |-> IF f \in DOMAIN doc THEN doc[f] ELSE stored[f] ]

\* collection.update_one({"_id": query_id}, {"$set": doc}): the collection
\* afterwards, and the number of documents the update changed
UpdateOne(plan_id, doc) ==
    [ collection |-> { IF stored.key = plan_id THEN SetFields(stored, doc) ELSE stored :
                         stored \in storage },
      modified_count |-> Cardinality({ stored \in storage :
                                         stored.key = plan_id /\ SetFields(stored, doc) # stored }) ]

\* PlanRepository.update: result.modified_count > 0, or False when the
\* driver raises
Update(plan_id, plan_dict, db_ok) ==
    IF ~db_ok THEN [collection |-> storage, success |-> FALSE]
    ELSE [ collection |-> UpdateOne(plan_id, ToDocument(plan_dict, 0).value).collection,
           success |-> UpdateOne(plan_id, ToDocument(plan_dict, 0).value).modified_count > 0 ]

\* a delete that acknowledges the request and leaves the document stored
DeleteAcknowledgedOnly(plan_id, db_ok) ==
    [ collection |-> storage,
      success |-> db_ok /\ \E stored \in storage : stored.key = plan_id ]

\* PlanRepository.delete: result.deleted_count > 0, or False when the driver
\* raises
Delete(plan_id, db_ok) ==
    IF ~db_ok THEN [collection |-> storage, success |-> FALSE]
    ELSE [ collection |-> { stored \in storage : stored.key # plan_id },
           success |-> \E stored \in storage : stored.key = plan_id ]

\* raise HTTPException(status_code=404, detail="Plan not found"), as the
\* route decorator passes it on
NotFound == HandleExceptions(HTTPException(404))

\* the plans of the requests that created the stored documents
StoreRawPlans ==
    { GetDefaultPlanStructure(GoalPiano, GetDefaultGoalInfo),
      RawPlan(JAbsent, JStr(S_desc), JStr(S_2days),
              JList(<< RawDay(JInt(1), JStr(DateStr(0)), JStr(S_summary),
                              JList(<< RawTask(JAbsent, JStr(S_Louvre), JAbsent, JAbsent) >>)) >>)) }

StoreExternal ==
    [ trip_start_date |-> DateTime(0, 0), trip_end_date |-> DateTime(0, 0), trip_duration |-> 1,
      weather |-> NoWeather, search_results |-> <<>> ]

\* the document execute stores for a raw plan, with ObjectIds from oid on
StoredDocument(raw, oid) ==
    Create(PlanDict(EnrichPlanWithExternalData(raw, StoreExternal, GoalPiano, oid).value,
                    DateTime(0, 0)),
           EnrichPlanWithExternalData(raw, StoreExternal, GoalPiano, oid).oid, TRUE).value

StoreSlots == { 10, 20 }

\* an id no document has
AbsentId == OidStr(99)

StoreIds == { StoredDocument(raw, oid).key : raw \in StoreRawPlans, oid \in StoreSlots } \cup { AbsentId }

StatusValues == { "active", "completed" }

\* the PlanUpdateRequest bodies sent: a goal or none, a status or none (no
\* description, no days)
UpdateRequests ==
    [ goal : { None, JStr(S_paraphrase) },
      status : { None } \cup { [t |-> "str", s |-> status] : status \in StatusValues } ]

\* the plans were created at midnight; requests arrive later
InitStore ==
    /\ pc = "serving"
    /\ \E chosen \in [StoreSlots -> { None } \cup StoreRawPlans] :
          storage = { StoredDocument(chosen[oid], oid) : oid \in { o \in StoreSlots : chosen[o] # None } }
    /\ clock = DateTime(0, 0)
    /\ http_response = NoResponse
    /\ requests = << >>
    /\ goal = <<>>
    /\ ai_log = <<>>
    /\ extracted_info = None
    /\ external_info = None
    /\ plan_data = None
    /\ enriched_plan = None
    /\ next_oid = 0
    /\ trace = <<>>
    /\ error = NoError
    /\ ext_log = <<>>

\* a request is served: time has passed since the one before
Serve(op, plan_id, status) ==
    /\ clock.tod < MaxRequests
    /\ clock' = DateTime(clock.date, clock.tod + 1)
    /\ http_response' = Response(op, plan_id, status)
    /\ UNCHANGED << requests, pc, goal, ai_log, extracted_info, external_info, plan_data, enriched_plan,
                    next_oid, trace, error, ext_log >>

\* GET /plans/{plan_id}
GetPlan ==
    \E plan_id \in StoreIds, db_ok \in BOOLEAN :
       /\ Serve("get", plan_id, IF GetPlanUseCase(plan_id, db_ok) = None THEN NotFound ELSE 200)
       /\ UNCHANGED storage

\* the request's fields that are not None, written into the current plan
ApplyRequest(plan, request) ==
    [ plan EXCEPT !.goal = IF request.goal # None THEN request.goal.s ELSE @,
                  !.status = IF request.status # None THEN request.status.s ELSE @ ]

\* UpdatePlanUseCase.execute from plan.updated_at = datetime.utcnow() on:
\* the collection afterwards, and the plan returned or None
UpdatePlanUseCase(plan_id, plan, now, db_update) ==
    Update(plan_id, [plan EXCEPT !.updated_at = now], db_update)

\* PUT /plans/{plan_id}
UpdatePlan ==
    \E plan_id \in StoreIds, request \in UpdateRequests, db \in [1..3 -> BOOLEAN] :
       \E current_plan \in { GetPlanUseCase(plan_id, db[1]) } :
          IF current_plan = None
          THEN /\ Serve("update", plan_id, NotFound)
               /\ UNCHANGED storage
          ELSE \E updated \in { UpdatePlanUseCase(plan_id, ApplyRequest(current_plan, request),
                                                  DateTime(clock.date, clock.tod + 1), db[2]) } :
                  /\ storage' = updated.collection
                  /\ Serve("update", plan_id,
                           IF updated.success /\ db[3] THEN 200 ELSE NotFound)

\* PATCH /plans/{plan_id}/status: UpdatePlanStatusUseCaseHelper.execute
UpdatePlanStatus ==
    \E plan_id \in StoreIds, new_status \in StatusValues, db \in [1..2 -> BOOLEAN] :
       \E plan_doc \in { GetById(plan_id, db[1]) } :
          IF plan_doc = None
          THEN /\ Serve("update_status", plan_id, NotFound)
               /\ UNCHANGED storage
          ELSE \E updated \in { Update(plan_id, [PlanOf(plan_doc) EXCEPT !.status = new_status],
                                       db[2]) } :
                  /\ storage' = updated.collection
                  /\ Serve("update_status", plan_id, IF updated.success THEN 200 ELSE NotFound)

\* DELETE /plans/{plan_id}
DeletePlan ==
    \E plan_id \in StoreIds, db_ok \in BOOLEAN :
       \E deleted \in { Delete(plan_id, db_ok) } :
          /\ storage' = deleted.collection
          /\ Serve("delete", plan_id, IF deleted.success THEN 200 ELSE NotFound)

\* collection.find(...).sort("created_at", -1): the documents newest first,
\* in any order among those created at the same instant
SortedByCreatedAt(docs) ==
    { cursor \in [1..Cardinality(docs) -> docs] :
        /\ \A i, j \in 1..Cardinality(docs) : i # j => cursor[i] # cursor[j]
        /\ \A i \in 1..(Cardinality(docs) - 1) :
              ~Earlier(cursor[i].created_at, cursor[i + 1].created_at) }

\* cursor.skip(offset) and cursor.limit(limit), each applied when not 0 or None
Paginate(cursor, limit, offset) ==
    SubSeq(cursor, offset + 1,
           IF limit # 0 /\ offset + limit < Len(cursor) THEN offset + limit ELSE Len(cursor))

\* PlanRepository.get_all: the results the cursor can give, [] when the
\* driver raises
GetAll(limit, offset, db_ok) ==
    IF ~db_ok THEN { << >> }
    ELSE { [ k \in DOMAIN Paginate(cursor, limit, offset) |->
               FromDocument(Paginate(cursor, limit, offset)[k]) ] :
           cursor \in SortedByCreatedAt(storage) }

\* {"goal": {"$regex": goal_pattern, "$options": "i"}} for a pattern of
\* letters: the goal holds the pattern, whatever the case
GoalMatches(doc, goal_pattern) == Contains(Lower(doc.goal), Lower(goal_pattern))

\* PlanRepository.find_by_goal
FindByGoal(goal_pattern, db_ok) ==
    IF ~db_ok THEN { << >> }
    ELSE { [ k \in DOMAIN cursor |-> FromDocument(cursor[k]) ] :
           cursor \in SortedByCreatedAt({ doc \in storage : GoalMatches(doc, goal_pattern) }) }

\* PlanListResponse(plans=plan_responses, total=len(plan_responses)), by the
\* ids of its plans
PlanListResponse(op, plan_documents) ==
    [ op |-> op, plan_id |-> << >>, status |-> 200,
      plans |-> [ k \in DOMAIN plan_documents |-> PlanOf(plan_documents[k]).id.s ],
      total |-> Len(plan_documents) ]

ServeList(op, plan_documents) ==
    /\ clock.tod < MaxRequests
    /\ clock' = DateTime(clock.date, clock.tod + 1)
    /\ http_response' = PlanListResponse(op, plan_documents)
    /\ UNCHANGED << requests, pc, goal, ai_log, extracted_info, external_info, plan_data, enriched_plan,
                    storage, next_oid, trace, error, ext_log >>

Limits == { 0, 1 }
Offsets == { 0, 1 }

\* GET /plans
GetAllPlans ==
    \E limit \in Limits, offset \in Offsets, db_ok \in BOOLEAN :
       \E plan_documents \in GetAll(limit, offset, db_ok) :
          ServeList("list", plan_documents)

GoalPatterns == { <<"P", "I", "A", "N", "O">>, <<"p", "a", "r", "i", "s">> }

\* GET /plans/search
SearchPlansByGoal ==
    \E goal_pattern \in GoalPatterns, db_ok \in BOOLEAN :
       \E plan_documents \in FindByGoal(goal_pattern, db_ok) :
          ServeList("search", plan_documents)

NextStore ==
    \/ GetPlan
    \/ GetAllPlans
    \/ SearchPlansByGoal
    \/ UpdatePlan
    \/ UpdatePlanStatus
    \/ DeletePlan

SpecStore == InitStore /\ [][NextStore]_vars

\* the stored document with an id, before and after the step
Present(plan_id) == \E stored \in storage : stored.key = plan_id
StoredBefore(plan_id) == CHOOSE stored \in storage : stored.key = plan_id
StoredAfter(plan_id) == CHOOSE stored \in storage' : stored.key = plan_id

\* C18: a request to read, update, patch the status of or delete a plan is
\* answered 404 if and only if no stored plan has the requested id when it
\* is served; a request for an absent id leaves storage unchanged; a
\* request for a present id is never answered 404, whatever values it sets.
NotFoundIffAbsent ==
    [][ (clock' # clock /\ http_response'.op \in { "get", "update", "update_status", "delete" }) =>
          /\ (http_response'.status = 404) <=> ~Present(http_response'.plan_id)
          /\ ~Present(http_response'.plan_id) => storage' = storage ]_vars

\* C20: every request that changes a stored plan through update_plan or
\* update_plan_status leaves its updated_at at the time of the request,
\* later than it was, and its created_at as it was.
UpdatedAtRefreshed ==
    [][ (clock' # clock /\ http_response'.op \in { "update", "update_status" }
           /\ storage' # storage) =>
          /\ StoredAfter(http_response'.plan_id).updated_at = clock'
          /\ Earlier(StoredBefore(http_response'.plan_id).updated_at,
                     StoredAfter(http_response'.plan_id).updated_at)
          /\ StoredAfter(http_response'.plan_id).created_at
                = StoredBefore(http_response'.plan_id).created_at ]_vars

-----------------------------------------------------------------------------
(* The start date calculate_trip_dates chooses, under SpecDates: clock is  *)
(* the reference instant, TripStart the start date returned                *)

GoalLower == Lower(extracted_info.goal)

\* the goal holds no explicit calendar date that resolves
NoExplicitDate == ~ParseSpecificDate(GoalLower, clock).found

\* the start is the reference instant moved by n days
StartsAfterDays(n) == TripStart = DateTime(clock.date + n, clock.tod)

\* C23: without an explicit date, a goal containing "today" starts on the
\* reference day, one containing "day after tomorrow" (and not "today")
\* starts 2 days later, and one containing "tomorrow" but neither of these
\* starts 1 day later.
RelativeKeywordsResolve ==
    (Gathered /\ NoExplicitDate) =>
        /\ Contains(GoalLower, <<"t", "o", "d", "a", "y">>) => StartsAfterDays(0)
        /\ (Contains(GoalLower, <<"d", "a", "y", " ", "a", "f", "t", "e", "r", " ",
                                   "t", "o", "m", "o", "r", "r", "o", "w">>)
             /\ ~Contains(GoalLower, <<"t", "o", "d", "a", "y">>)) => StartsAfterDays(2)
        /\ (Contains(GoalLower, <<"t", "o", "m", "o", "r", "r", "o", "w">>)
             /\ ~Contains(GoalLower, <<"d", "a", "y", " ", "a", "f", "t", "e", "r", " ",
                                      "t", "o", "m", "o", "r", "r", "o", "w">>)
             /\ ~Contains(GoalLower, <<"t", "o", "d", "a", "y">>)) => StartsAfterDays(1)

\* none of the cues tested before cue is in the goal
NoCueBefore(cues) == \A k \in 1..Len(cues) : ~Contains(GoalLower, cues[k])

CuesBeforeNextWeek ==
    << <<"t", "o", "d", "a", "y">>, <<"t", "o", "m", "o", "r", "r", "o", "w">> >>

\* C24: for a goal whose first matching cue is "next week", whatever the
\* weekday of the reference day, the start is a Monday strictly after the
\* reference day and at most 7 days after it, and exactly 7 days after a
\* reference day that is a Monday.
NextWeekIsNextMonday ==
    (Gathered /\ NoExplicitDate /\ NoCueBefore(CuesBeforeNextWeek)
       /\ Contains(GoalLower, <<"n", "e", "x", "t", " ", "w", "e", "e", "k">>)) =>
        /\ TripStart.date % 7 = 0
        /\ TripStart.date > clock.date
        /\ TripStart.date <= clock.date + 7
        /\ clock.date % 7 = 0 => TripStart.date = clock.date + 7
        /\ TripStart.tod = clock.tod

\* C24: "Rome next week" asked on Monday 2024-01-15 starts on 2024-01-22
NextWeekIsNextMondayWitness ==
    /\ Gathered
    /\ goal = GoalNextWeek
    /\ clock.date = Ordinal(2024, 1, 15)
    /\ TripStart.date = Ordinal(2024, 1, 22)

\* the goal's cue is a weekend: "next weekend", or "this weekend" with no
\* earlier cue
WeekendCue ==
    /\ NoCueBefore(CuesBeforeNextWeek)
    /\ \/ Contains(GoalLower, <<"n", "e", "x", "t", " ", "w", "e", "e", "k", "e", "n", "d">>)
       \/ /\ Contains(GoalLower, <<"t", "h", "i", "s", " ", "w", "e", "e", "k", "e", "n", "d">>)
          /\ ~Contains(GoalLower, <<"n", "e", "x", "t", " ", "w", "e", "e", "k">>)

\* C25: for a goal whose cue is "next weekend" or "this weekend", whatever
\* the weekday of the reference day, the start is a Saturday not before
\* the reference day and at most 7 days after it; asked on a Wednesday
\* with duration 2 the trip runs from the coming Saturday to the Sunday.
WeekendIsSaturday ==
    (Gathered /\ NoExplicitDate /\ WeekendCue) =>
        /\ TripStart.date % 7 = 5
        /\ TripStart.date >= clock.date
        /\ TripStart.date <= clock.date + 7
        /\ (clock.date % 7 = 2 /\ extracted_info.duration = 2) =>
              /\ TripStart.date = clock.date + 3
              /\ TripEnd.date = clock.date + 4

\* the day and month each goal of DateGoals names explicitly
ExplicitDates ==
    { [goal |-> Goal16Jan, day |-> 16, month |-> 1],
      [goal |-> Goal1stMarch, day |-> 1, month |-> 3],
      [goal |-> GoalOctober25, day |-> 25, month |-> 10],
      [goal |-> Goal31Feb, day |-> 31, month |-> 2],
      [goal |-> Goal5thJan, day |-> 5, month |-> 1],
      [goal |-> Goal3DayTrip25Oct, day |-> 25, month |-> 10] }

\* the start the rules after the explicit-date rule give
StartWithoutDate == StartDateOf(NoDate, GoalLower, clock, Weekday(clock.date))

ReferenceYear == YearOf(clock.date)

\* C26: for a goal that names a day and month, the trip starts on that day and
\* month of the reference year when that is not before the reference day, and
\* of the next year otherwise, so never before the reference day; a day and
\* month that is no calendar date raises nothing and the start is what the
\* following rules give.
ExplicitDateResolves ==
    Gathered =>
        \A e \in ExplicitDates : e.goal = extracted_info.goal =>
            IF ~ValidDate(ReferenceYear, e.month, e.day)
            THEN TripStart = StartWithoutDate
            ELSE /\ TripStart.date >= clock.date
                 /\ TripStart.date =
                        IF Ordinal(ReferenceYear, e.month, e.day) >= clock.date
                        THEN Ordinal(ReferenceYear, e.month, e.day)
                        ELSE Ordinal(ReferenceYear + 1, e.month, e.day)

NamesValidDate ==
    \E e \in ExplicitDates :
        e.goal = extracted_info.goal /\ ValidDate(ReferenceYear, e.month, e.day)

RelativeKeywords ==
    << K_today, K_tomorrow, K_next_week, K_this_weekend, K_next_month >>

NoRuleMatches ==
    /\ NoExplicitDate
    /\ ~NamesValidDate
    /\ NoCueBefore(RelativeKeywords)
    /\ ~InOffset(GoalLower).found

TripVocabulary ==
    { <<"t", "r", "i", "p">>,
      <<"t", "r", "a", "v", "e", "l">>,
      <<"v", "i", "s", "i", "t">>,
      <<"t", "o", "u", "r">>,
      <<"v", "a", "c", "a", "t", "i", "o", "n">> }

\* C27: a goal with no explicit date, no relative keyword and no "in N
\* day(s)/week(s)" offset starts on the first Saturday at least 2 days after
\* the reference day when it holds a trip word, and one day after the
\* reference day otherwise, goals holding "in " without a number included.
DefaultStart ==
    (Gathered /\ NoRuleMatches) =>
        IF \E w \in TripVocabulary : Contains(GoalLower, w)
        THEN /\ TripStart.date % 7 = 5
             /\ TripStart.date >= clock.date + 2
             /\ TripStart.date <= clock.date + 8
        ELSE TripStart.date = clock.date + 1

-----------------------------------------------------------------------------
(* The weather advisory of one forecast day                                 *)
(* (WeatherService._generate_weather_advisory)                              *)

N_extreme_heat == "EXTREME HEAT: Plan indoor activities during midday (11 AM - 4 PM)"
N_very_hot == "Very hot day: Prefer early morning and evening outdoor activities"
N_very_cold == "Very cold: Layer clothing and prefer heated indoor venues"
N_freezing == "Freezing temperatures: Check for ice and dress warmly"
N_high_rain == "High rain probability: Prioritize indoor activities or covered venues"
N_possible_rain == "Possible rain: Have indoor backup plans ready"
N_storm == "STORM WARNING: Stay indoors during storm periods"
N_snow == "Snow expected: Check travel conditions and dress warmly"
N_fog == "Foggy conditions: Allow extra travel time and check visibility"
N_great == "Great weather for outdoor activities!"
N_pleasant == "Pleasant weather for most activities"

\* the temperature advisories
TemperatureAdvisories(min_temp, max_temp) ==
    IF max_temp > 40 THEN << N_extreme_heat >>
    ELSE IF max_temp > 35 THEN << N_very_hot >>
    ELSE IF max_temp < 5 THEN << N_very_cold >>
    ELSE IF min_temp < 0 THEN << N_freezing >>
    ELSE << >>

\* rain advisories whose high-rain note starts at 70
RainAdvisoriesFrom70(rain_probability) ==
    IF rain_probability >= 70 THEN << N_high_rain >>
    ELSE IF rain_probability > 40 THEN << N_possible_rain >>
    ELSE << >>

\* the rain advisories
RainAdvisories(rain_probability) ==
    IF rain_probability > 70 THEN << N_high_rain >>
    ELSE IF rain_probability > 40 THEN << N_possible_rain >>
    ELSE << >>

\* the weather condition advisories, on condition.lower()
ConditionAdvisories(condition) ==
    IF Lower(condition) \in { <<"t","h","u","n","d","e","r","s","t","o","r","m">>, <<"s","t","o","r","m">> }
    THEN << N_storm >>
    ELSE IF Lower(condition) = <<"s","n","o","w">> THEN << N_snow >>
    ELSE IF Lower(condition) = <<"f","o","g">> THEN << N_fog >>
    ELSE << >>

\* the note appended when no advisory was
NeutralAdvisory(max_temp, rain_probability) ==
    IF 15 <= max_temp /\ max_temp <= 30 /\ rain_probability < 30
    THEN << N_great >>
    ELSE << N_pleasant >>

\* " | ".join(advisories), as the pieces of the text in order
RECURSIVE JoinAdvisories(_)
JoinAdvisories(advisories) ==
    IF Len(advisories) <= 1 THEN advisories
    ELSE << Head(advisories), " | " >> \o JoinAdvisories(Tail(advisories))

GenerateWeatherAdvisory(condition, min_temp, max_temp, rain_probability) ==
    LET advisories == TemperatureAdvisories(min_temp, max_temp)
                      \o RainAdvisories(rain_probability)
                      \o ConditionAdvisories(condition)
    IN  JoinAdvisories(IF advisories = << >>
                       THEN NeutralAdvisory(max_temp, rain_probability)
                       ELSE advisories)

\* the day's aggregates: temperatures in degrees Celsius around every
\* threshold, rain probability in percent, the dominant condition
MinTemps == { -6, 0, 10 }
MaxTemps == { -6, 4, 5, 14, 15, 20, 30, 31, 35, 36, 40, 41, 42 }
RainProbabilities == { 0, 10, 29, 30, 40, 41, 70, 71, 80, 100 }
Conditions ==
    { <<"C","l","e","a","r">>, <<"R","a","i","n">>, <<"C","l","o","u","d","s">>,
      <<"T","h","u","n","d","e","r","s","t","o","r","m">>, <<"S","n","o","w">>,
      <<"F","o","g">> }

DayAggregates ==
    { d \in [condition : Conditions, min_temp : MinTemps, max_temp : MaxTemps,
             rain_probability : RainProbabilities] : d.min_temp <= d.max_temp }

\* a forecast was fetched and one trip day of it is about to be summarised
InitAdvisory ==
    /\ pc = "forecast"
    /\ goal = << >>
    /\ ai_log = << >>
    /\ extracted_info = None
    /\ external_info = None
    /\ plan_data = None
    /\ enriched_plan = None
    /\ storage = {}
    /\ next_oid = 0
    /\ trace = << >>
    /\ error = NoError
    /\ \E d \in DayAggregates :
           ext_log = << [svc |-> "forecast", arg |-> << >>, outcome |-> d] >>
    /\ clock = DateTime(0, 0)
    /\ http_response = NoResponse
    /\ requests = << >>

\* WeatherService._process_forecast_for_dates, the day_data of a day that has
\* forecast items
ProcessForecastDay ==
    /\ pc = "forecast"
    /\ \E d \in { ext_log[1].outcome } :
           external_info' =
               [condition |-> d.condition,
                weather_advisory |-> GenerateWeatherAdvisory(d.condition, d.min_temp,
                                         d.max_temp, d.rain_probability),
                data_source |-> "5-day forecast"]
    /\ pc' = "advised"
    /\ UNCHANGED << requests, goal, ai_log, extracted_info, plan_data, enriched_plan, storage,
                    next_oid, trace, error, ext_log, clock, http_response >>

NextAdvisory == ProcessForecastDay

SpecAdvisory == InitAdvisory /\ [][NextAdvisory]_vars

Advised == pc = "advised"
DayInput == ext_log[1].outcome
HasNote(note) == \E k \in 1..Len(external_info.weather_advisory) : external_info.weather_advisory[k] = note

\* a temperature, rain or condition threshold triggers
ThresholdTriggers ==
    \/ DayInput.max_temp > 35
    \/ DayInput.max_temp < 5
    \/ DayInput.min_temp < 0
    \/ DayInput.rain_probability > 40
    \/ Lower(DayInput.condition) \in { <<"t","h","u","n","d","e","r","s","t","o","r","m">>, <<"s","t","o","r","m">>,
                                        <<"s","n","o","w">>, <<"f","o","g">> }

\* C28: the advisory of a forecast day is never empty; a maximum above 40 gives
\* the extreme-heat note, a rain probability above 70 the high-rain note, one
\* above 40 and at most 70 the possible-rain note, one of at most 40 no rain
\* note, and the good/pleasant note is there exactly when no temperature, rain
\* or condition threshold triggers.
AdvisoryFromThresholds ==
    Advised =>
        /\ external_info.weather_advisory # << >>
        /\ DayInput.max_temp > 40 => HasNote(N_extreme_heat)
        /\ DayInput.rain_probability > 70 => (HasNote(N_high_rain) /\ ~HasNote(N_possible_rain))
        /\ (DayInput.rain_probability > 40 /\ DayInput.rain_probability <= 70)
               => (HasNote(N_possible_rain) /\ ~HasNote(N_high_rain))
        /\ DayInput.rain_probability <= 40 => (~HasNote(N_high_rain) /\ ~HasNote(N_possible_rain))
        /\ (HasNote(N_great) \/ HasNote(N_pleasant)) <=> ~ThresholdTriggers

\* 42 degrees, 10 % and Clear: the extreme-heat note alone
AdvisoryFromThresholdsWitness ==
    /\ Advised
    /\ DayInput.max_temp = 42 /\ DayInput.rain_probability = 10
    /\ DayInput.condition = <<"C","l","e","a","r">>
    /\ external_info.weather_advisory = << N_extreme_heat >>

-----------------------------------------------------------------------------
(* The identifier of a plan                                                 *)

\* C21: the id the assembler gave the plan is the id it keeps: when the plan
\* is saved and the store generates a key of its own, the plan returned by
\* createPlan still carries the assembler's id, and that id is the one the
\* response exposes.
PlanIdIsDomainId ==
    [][(pc = "save" /\ pc' = "done")
          => /\ enriched_plan'.id = enriched_plan.id
             /\ http_response'.plan_id = enriched_plan.id.s]_vars

-----------------------------------------------------------------------------
(* Deletion, under SpecStore                                                *)

\* the plan ids a list or search response returns
Returned(resp) == { resp.plans[k] : k \in 1..Len(resp.plans) }

\* C22: a delete answered 200 removes the document of the plan, with its days
\* and tasks, and leaves every other document as it was; a plan that is not
\* stored never comes back, getPlan and deletePlan of it answer 404, and no
\* list or search returns it.
DeleteRemovesAggregate ==
    [][ clock' # clock =>
          /\ (http_response'.op = "delete" /\ http_response'.status = 200) =>
                /\ Present(http_response'.plan_id)
                /\ storage' = { stored \in storage : stored.key # http_response'.plan_id }
          /\ \A plan_id \in StoreIds : ~Present(plan_id) =>
                /\ \A stored \in storage' : stored.key # plan_id
                /\ (http_response'.op \in { "get", "delete" } /\ http_response'.plan_id = plan_id)
                      => http_response'.status = 404
                /\ http_response'.op \in { "list", "search" }
                      => plan_id \notin Returned(http_response') ]_vars

\* a delete was answered 200: the plan is gone and another is still stored
DeleteRemovesAggregateWitness ==
    /\ http_response.op = "delete" /\ http_response.status = 200
    /\ ~Present(http_response.plan_id)
    /\ storage # {}

\* the fields of a stored plan a status change may touch
StatusFields == { "status", "updated_at" }

\* C29: a status patch of a stored plan changes nothing of the stored plan but
\* its status and updated_at: goal, description, total_duration, created_at
\* and every field of every day and task are as they were.
StatusPatchFrame ==
    [][ (clock' # clock /\ http_response'.op = "update_status" /\ Present(http_response'.plan_id)) =>
          /\ \E stored \in storage' : stored.key = http_response'.plan_id
          /\ DOMAIN StoredAfter(http_response'.plan_id) = DOMAIN StoredBefore(http_response'.plan_id)
          /\ \A f \in DOMAIN StoredBefore(http_response'.plan_id) \ StatusFields :
                StoredAfter(http_response'.plan_id)[f] = StoredBefore(http_response'.plan_id)[f] ]_vars

-----------------------------------------------------------------------------
(* Two update requests on one plan, served concurrently: every await of a  *)
(* handler is a point where the other handler may run                      *)

\* the id of the plan both requests address
SharedId(raw, oid) == StoredDocument(raw, oid).key

\* request 1 is a PUT that changes the goal; request 2 changes the status,
\* as a PUT or as a status PATCH
GoalChange == [goal |-> JStr(S_paraphrase), status |-> None]
StatusChange == [goal |-> None, status |-> [t |-> "str", s |-> "completed"]]

Request(op, plan_id, body) ==
    [op |-> op, plan_id |-> plan_id, body |-> body, pc |-> "read", plan |-> None, status |-> 0]

InitConcurrent ==
    /\ pc = "serving"
    /\ \E raw \in StoreRawPlans, oid \in StoreSlots, op \in { "update", "update_status" } :
          /\ storage = { StoredDocument(raw, oid) }
          /\ requests = << Request("update", SharedId(raw, oid), GoalChange),
                           Request(op, SharedId(raw, oid), StatusChange) >>
    /\ clock = DateTime(0, 1)
    /\ http_response = NoResponse
    /\ goal = << >>
    /\ ai_log = << >>
    /\ extracted_info = None
    /\ external_info = None
    /\ plan_data = None
    /\ enriched_plan = None
    /\ next_oid = 0
    /\ trace = << >>
    /\ error = NoError
    /\ ext_log = << >>

\* a step of a request touches its own record and the collection
RequestFrame ==
    UNCHANGED << pc, goal, ai_log, extracted_info, external_info, plan_data, enriched_plan,
                 next_oid, trace, error, ext_log, clock, http_response >>

\* the request is answered
Answered(r, status) == [requests EXCEPT ![r].pc = "done", ![r].status = status]

\* update_plan up to its first await: get_plan_usecase.execute(plan_id), 404
\* if there is none, else the request's fields written into the copy
ReadForUpdate(r) ==
    /\ RequestFrame
    /\ requests[r].op = "update" /\ requests[r].pc = "read"
    /\ \E db_ok \in BOOLEAN :
       \E current_plan \in { GetPlanUseCase(requests[r].plan_id, db_ok) } :
          requests' = IF current_plan = None THEN Answered(r, NotFound)
                      ELSE [requests EXCEPT ![r].pc = "write",
                                            ![r].plan = ApplyRequest(current_plan, requests[r].body)]
    /\ UNCHANGED storage

\* UpdatePlanUseCase.execute up to its await of repository.update
WriteForUpdate(r) ==
    /\ RequestFrame
    /\ requests[r].op = "update" /\ requests[r].pc = "write"
    /\ \E db_ok \in BOOLEAN :
       \E updated \in { UpdatePlanUseCase(requests[r].plan_id, requests[r].plan, clock, db_ok) } :
          /\ storage' = updated.collection
          /\ requests' = IF updated.success THEN [requests EXCEPT ![r].pc = "reread"]
                         ELSE Answered(r, NotFound)

\* UpdatePlanUseCase.execute from `if success:` on: the plan read again
RereadForUpdate(r) ==
    /\ RequestFrame
    /\ requests[r].op = "update" /\ requests[r].pc = "reread"
    /\ \E db_ok \in BOOLEAN :
          requests' = Answered(r, IF GetById(requests[r].plan_id, db_ok) = None
                                  THEN NotFound ELSE 200)
    /\ UNCHANGED storage

\* UpdatePlanStatusUseCaseHelper.execute up to its await of repository.update
ReadForStatus(r) ==
    /\ RequestFrame
    /\ requests[r].op = "update_status" /\ requests[r].pc = "read"
    /\ \E db_ok \in BOOLEAN :
       \E plan_doc \in { GetById(requests[r].plan_id, db_ok) } :
          requests' = IF plan_doc = None THEN Answered(r, NotFound)
                      ELSE [requests EXCEPT ![r].pc = "write",
                                            ![r].plan = [PlanOf(plan_doc) EXCEPT
                                                            !.status = requests[r].body.status.s]]
    /\ UNCHANGED storage

\* UpdatePlanStatusUseCaseHelper.execute from repository.update on
WriteForStatus(r) ==
    /\ RequestFrame
    /\ requests[r].op = "update_status" /\ requests[r].pc = "write"
    /\ \E db_ok \in BOOLEAN :
       \E updated \in { Update(requests[r].plan_id, requests[r].plan, db_ok) } :
          /\ storage' = updated.collection
          /\ requests' = Answered(r, IF updated.success THEN 200 ELSE NotFound)

NextConcurrent ==
    \E r \in 1..2 :
       \/ ReadForUpdate(r)
       \/ WriteForUpdate(r)
       \/ RereadForUpdate(r)
       \/ ReadForStatus(r)
       \/ WriteForStatus(r)

SpecConcurrent == InitConcurrent /\ [][NextConcurrent]_vars

BothAcknowledged == \A r \in 1..2 : requests[r].pc = "done" /\ requests[r].status = 200

SharedPlan == CHOOSE stored \in storage : stored.key = requests[1].plan_id

\* C30: when both requests are acknowledged, whatever the order of their read
\* and write steps, the stored plan has the goal request 1 set and the status
\* request 2 set.
NoLostUpdate ==
    BothAcknowledged =>
        /\ SharedPlan.goal = requests[1].body.goal.s
        /\ SharedPlan.status = requests[2].body.status.s

=============================================================================
